---- MODULE Spec2Model ----
(***************************************************************************)
(* wezterm-watch: filesystem watcher with git status correlation.          *)
(*                                                                         *)
(* The module models                                                       *)
(*   - GitMonitor (git.rs): fetch_status, the TTL cache behind a mutex,    *)
(*     invalidate_cache and get_file_status;                               *)
(*   - FileWatcher (watcher.rs): the debounce callback handle_events and   *)
(*     the translation convert_event with its ignore filter;               *)
(*   - the main loop (main.rs): receive, correlate, output, shut down;     *)
(*   - wezterm-fs-explorer: the App (app.rs) over a file tree, its file    *)
(*     operations (operations.rs) and the IPC handler (main.rs).           *)
(*                                                                         *)
(* Time is in milliseconds.  Option<T> is a sequence of length 0 (None)    *)
(* or 1 (Some); Result<T> is a record [ok, val].                           *)
(***************************************************************************)
EXTENDS Integers, Sequences, FiniteSets, TLC

VARIABLES
    now,        \* Instant::now(), ms
    repo,       \* the repository as git2 sees it (changed by external tools)
    cache,      \* CachedGitInfo {info, last_update, cache_duration}
    last,       \* history: the last completed get_status call and its predecessor
    invalidated,\* history: invalidate_cache ran and no get_status since
    looked,     \* history: the last get_file_status call
    lock,       \* holder of the Mutex around cache, or "free"
    pc,         \* per thread: position inside get_status / invalidate_cache
    tmp,        \* per thread: the local `info` of get_status
    seenOk,     \* history, per thread: its freshness test read a committed pair
    ret,        \* history, per thread: what its last get_status returned
    committed,  \* history: (info, last_update) left by the last complete call
    computed,   \* history: every GitInfo fetch_status has produced
    queued,     \* history, per thread: its call met a recomputation by another
    fs,         \* the watched tree: path -> "absent" | "file" | "dir"
    gitignore,  \* FileWatcher.gitignore: Option<Gitignore>
    window,     \* raw notifications of the debounce window in progress
    channel,    \* crossbeam channel from the debouncer thread to main
    flushed,    \* history: the last callback's raw log or errors, and what it sent
    opts,       \* main: output format and whether a GitMonitor was built
    running,    \* main: the AtomicBool the signal handler clears
    sender,     \* the Sender moved into the debouncer callback is alive
    mainpc,     \* main: position in the event loop
    event,      \* main: the event received in this iteration
    git_status, \* main: the status resolved for it
    steps,      \* history: what this iteration has done, in order
    outputs,    \* history: format_event calls made for this event
    shutdown,   \* history: why the loop ended, or "none"
    late,       \* history: events received after the flag was cleared
    trace,      \* history, when kept: the events sent and those handed over
    app,        \* file explorer: the App (current_dir, entries, selected_index, ...)
    disk,       \* file explorer: the file tree, path -> "file" | "dir"
    marked,     \* history: per element of selected_entries, the entry toggled
    outcome     \* history: the last App call's result; of a confirm_action,
                \* the mode, buffer and toggled entries before and what it deleted;
                \* the number of calls and outside changes so far

cacheVars == <<now, repo, cache, last, invalidated, looked>>
concVars == <<lock, pc, tmp, seenOk, ret, committed, computed, queued>>

watchVars == <<fs, gitignore, window, channel, flushed>>

loopVars ==
    <<opts, running, sender, mainpc, event, git_status, steps, outputs, shutdown,
      late, trace>>

appVars == <<app, disk, marked, outcome>>

vars == <<cacheVars, concVars, watchVars, loopVars, appVars>>

----------------------------------------------------------------------------
(* Option and Result                                                        *)

None == <<>>
Some(x) == <<x>>
IsSome(o) == Len(o) = 1
IsNone(o) == Len(o) = 0
Unwrap(o) == o[1]

Ok(x) == [ok |-> TRUE, val |-> <<x>>]
Err == [ok |-> FALSE, val |-> <<>>]

----------------------------------------------------------------------------
(* Bounds and program constants                                             *)

\* The clock advances in steps of TickMs up to MaxTime.
TickMs == 100
MaxTime == 700

\* git.rs:80  cache_duration: Duration::from_millis(500)
CacheDurationMs == 500
\* git.rs:79 and git.rs:123  Instant::now() - Duration::from_secs(10)
InvalidateAgeMs == 10000

Threads == {"main", "producer"}

----------------------------------------------------------------------------
(* GitStatusProvider: git.rs fetch_status                                   *)
(*                                                                          *)
(* A repository is a record                                                 *)
(*   present   : Repository::discover succeeded (fixed at construction)     *)
(*   head      : "branch" | "detached" | "unborn" (repo.head() fails)       *)
(*   shorthand : Option<&str> of head.shorthand()                           *)
(*   upstream  : "missing" | "direct" | "symbolic"  (refs/remotes/origin/b) *)
(*   graphOk, ahead, behind : repo.graph_ahead_behind                       *)
(*   statusOk  : repo.statuses succeeded                                    *)
(*   workdir   : Option<PathBuf> of repo.workdir()                          *)
(*   entries   : repo-relative path -> set of git2::Status flags            *)
(*   unnamed   : the flags of the entries whose path is not UTF-8           *)
(*               (entry.path() is None), in the order statuses lists them   *)
(* A path is a sequence of components.                                      *)

RepoRoot == <<"/", "repo">>
FileA == <<"a.txt">>
FileB == <<"b.txt">>

\* Mutant: the working-tree tests come before the index tests.
FileStatusOf_WorktreeFirst(status) ==
    IF "conflicted" \in status THEN "Conflicted"
    ELSE IF "wt_new" \in status THEN "Untracked"
    ELSE IF "wt_modified" \in status THEN "Modified"
    ELSE IF "wt_deleted" \in status THEN "Deleted"
    ELSE IF "index_new" \in status
            \/ "index_modified" \in status
            \/ "index_deleted" \in status THEN "Staged"
    ELSE IF "wt_renamed" \in status \/ "index_renamed" \in status THEN "Renamed"
    ELSE "Unknown"

\* Mutant: a new working-tree file is classified Added.
FileStatusOf_UntrackedAsAdded(status) ==
    IF "conflicted" \in status THEN "Conflicted"
    ELSE IF "index_new" \in status
            \/ "index_modified" \in status
            \/ "index_deleted" \in status THEN "Staged"
    ELSE IF "wt_new" \in status THEN "Added"
    ELSE IF "wt_modified" \in status THEN "Modified"
    ELSE IF "wt_deleted" \in status THEN "Deleted"
    ELSE IF "wt_renamed" \in status \/ "index_renamed" \in status THEN "Renamed"
    ELSE "Unknown"

\* The classification chain of fetch_status.
FileStatusOf(status) ==
    IF "conflicted" \in status THEN "Conflicted"
    ELSE IF "index_new" \in status
            \/ "index_modified" \in status
            \/ "index_deleted" \in status THEN "Staged"
    ELSE IF "wt_new" \in status THEN "Untracked"
    ELSE IF "wt_modified" \in status THEN "Modified"
    ELSE IF "wt_deleted" \in status THEN "Deleted"
    ELSE IF "wt_renamed" \in status \/ "index_renamed" \in status THEN "Renamed"
    ELSE "Unknown"

\* Mutant: the two distances change places.
GetAheadBehind_Swapped(r) ==
    IF r.head = "unborn" THEN Err
    ELSE IF r.head # "branch" THEN Ok(<<0, 0>>)
    ELSE IF IsNone(r.shorthand) THEN Err
    ELSE IF r.upstream = "missing" THEN Ok(<<0, 0>>)
    ELSE IF r.upstream = "symbolic" THEN Err
    ELSE IF ~r.graphOk THEN Err
    ELSE Ok(<<r.behind, r.ahead>>)

\* Mutant: the upstream is looked up whatever HEAD points at.
GetAheadBehind_NoBranchCheck(r) ==
    IF r.head = "unborn" THEN Err
    ELSE IF IsNone(r.shorthand) THEN Err
    ELSE IF r.upstream = "missing" THEN Ok(<<0, 0>>)
    ELSE IF r.upstream = "symbolic" THEN Err
    ELSE IF ~r.graphOk THEN Err
    ELSE Ok(<<r.ahead, r.behind>>)

\* get_ahead_behind: r.upstream says whether refs/remotes/origin/<branch>
\* is missing, a direct reference or a symbolic one.
GetAheadBehind(r) ==
    IF r.head = "unborn" THEN Err
    ELSE IF r.head # "branch" THEN Ok(<<0, 0>>)
    ELSE IF IsNone(r.shorthand) THEN Err
    ELSE IF r.upstream = "missing" THEN Ok(<<0, 0>>)
    ELSE IF r.upstream = "symbolic" THEN Err
    ELSE IF ~r.graphOk THEN Err
    ELSE Ok(<<r.ahead, r.behind>>)

\* PathBuf::from(""): the key of every entry without a UTF-8 path.
NoPath == <<>>

\* The loop over the status entries: has_conflicts is raised by any
\* conflicted entry; file_statuses.insert replaces what an earlier entry
\* stored under the same key.
HasConflicts(r) ==
    \/ \E p \in DOMAIN r.entries : "conflicted" \in r.entries[p]
    \/ \E i \in 1..Len(r.unnamed) : "conflicted" \in r.unnamed[i]

FileStatuses(r) ==
    LET named == [p \in DOMAIN r.entries |-> FileStatusOf(r.entries[p])]
    IN IF r.unnamed = <<>> THEN named
       ELSE (NoPath :> FileStatusOf(r.unnamed[Len(r.unnamed)])) @@ named

\* Mutant: the branch is HEAD's short name whatever HEAD points at.
FetchStatus_ShorthandAlways(r) ==
    IF ~r.present THEN Err
    ELSE IF r.head = "unborn" THEN Err
    ELSE LET branch == IF IsSome(r.shorthand) THEN Unwrap(r.shorthand)
                       ELSE "unknown"
             ab == GetAheadBehind(r)
         IN IF ~ab.ok THEN Err
            ELSE IF ~r.statusOk THEN Err
            ELSE Ok([branch |-> branch,
                     ahead |-> Unwrap(ab.val)[1],
                     behind |-> Unwrap(ab.val)[2],
                     has_conflicts |-> HasConflicts(r),
                     file_statuses |-> FileStatuses(r)])

\* Mutant: without a repository the computation yields an empty snapshot.
FetchStatus_AbsentIsEmpty(r) ==
    IF ~r.present
    THEN Ok([branch |-> "unknown", ahead |-> 0, behind |-> 0,
             has_conflicts |-> FALSE, file_statuses |-> <<>>])
    ELSE IF r.head = "unborn" THEN Err
    ELSE LET branch == IF r.head = "branch"
                       THEN (IF IsSome(r.shorthand) THEN Unwrap(r.shorthand)
                             ELSE "unknown")
                       ELSE "detached"
             ab == GetAheadBehind(r)
         IN IF ~ab.ok THEN Err
            ELSE IF ~r.statusOk THEN Err
            ELSE Ok([branch |-> branch,
                     ahead |-> Unwrap(ab.val)[1],
                     behind |-> Unwrap(ab.val)[2],
                     has_conflicts |-> HasConflicts(r),
                     file_statuses |-> FileStatuses(r)])

\* fetch_status; r.present is whether find_repository discovered a
\* repository when the monitor was built.
FetchStatus(r) ==
    IF ~r.present THEN Err
    ELSE IF r.head = "unborn" THEN Err
    ELSE LET branch == IF r.head = "branch"
                       THEN (IF IsSome(r.shorthand) THEN Unwrap(r.shorthand)
                             ELSE "unknown")
                       ELSE "detached"
             ab == GetAheadBehind(r)
         IN IF ~ab.ok THEN Err
            ELSE IF ~r.statusOk THEN Err
            ELSE Ok([branch |-> branch,
                     ahead |-> Unwrap(ab.val)[1],
                     behind |-> Unwrap(ab.val)[2],
                     has_conflicts |-> HasConflicts(r),
                     file_statuses |-> FileStatuses(r)])

\* Repositories the cache is exercised with.
RepoBase ==
    [present |-> TRUE, head |-> "branch", shorthand |-> Some("main"),
     upstream |-> "missing", graphOk |-> TRUE, ahead |-> 0, behind |-> 0,
     statusOk |-> TRUE, workdir |-> Some(RepoRoot),
     entries |-> (FileA :> {"wt_new"}) @@ (FileB :> {"wt_modified"}),
     unnamed |-> <<>>]

RepoStaged ==
    [RepoBase EXCEPT !.entries = (FileA :> {"wt_new"}) @@ (FileB :> {"index_modified"})]

RepoBroken == [RepoBase EXCEPT !.statusOk = FALSE]

RepoAbsent == [RepoBase EXCEPT !.present = FALSE]

RepoStates == {RepoBase, RepoStaged, RepoBroken, RepoAbsent}

----------------------------------------------------------------------------
(* StatusCache: git.rs GitMonitor::new, get_status, invalidate_cache,       *)
(* get_file_status.  The calls of one thread; the mutex is modelled in the  *)
(* two-thread specification further down.                                   *)

\* GitMonitor::new: the cache starts empty and already expired.
NewCache(t) ==
    [info |-> None, last_update |-> t - InvalidateAgeMs,
     cache_duration |-> CacheDurationMs]

\* Mutants of the freshness test: comparison inverted; boundary included.
CacheValid_Gt(c, t) ==
    IsSome(c.info) /\ t - c.last_update > c.cache_duration

CacheValid_Le(c, t) ==
    IsSome(c.info) /\ t - c.last_update <= c.cache_duration

\* The freshness test of get_status.
CacheValid(c, t) ==
    IsSome(c.info) /\ t - c.last_update < c.cache_duration

\* Mutant: a failed fetch falls back to the stored snapshot.
GetStatus_StaleOnError(c, r, t, t2) ==
    IF CacheValid(c, t)
    THEN [cache |-> c, res |-> Ok(Unwrap(c.info)), fetched |-> 0]
    ELSE LET f == FetchStatus(r)
         IN IF ~f.ok
            THEN [cache |-> c,
                  res |-> IF IsSome(c.info) THEN Ok(Unwrap(c.info)) ELSE Err,
                  fetched |-> 1]
            ELSE [cache |-> [c EXCEPT !.info = f.val, !.last_update = t2],
                  res |-> Ok(Unwrap(f.val)), fetched |-> 1]

\* Mutant: a failed fetch still refreshes the timestamp.
GetStatus_TouchOnError(c, r, t, t2) ==
    IF CacheValid(c, t)
    THEN [cache |-> c, res |-> Ok(Unwrap(c.info)), fetched |-> 0]
    ELSE LET f == FetchStatus(r)
         IN IF ~f.ok
            THEN [cache |-> [c EXCEPT !.last_update = t2], res |-> Err,
                  fetched |-> 1]
            ELSE [cache |-> [c EXCEPT !.info = f.val, !.last_update = t2],
                  res |-> Ok(Unwrap(f.val)), fetched |-> 1]

\* get_status on cache c; t is the time of the freshness test, t2 the
\* Instant::now() of the write-back (after fetch_status has run).
GetStatus(c, r, t, t2) ==
    IF CacheValid(c, t)
    THEN [cache |-> c, res |-> Ok(Unwrap(c.info)), fetched |-> 0]
    ELSE LET f == FetchStatus(r)
         IN IF ~f.ok
            THEN [cache |-> c, res |-> Err, fetched |-> 1]
            ELSE [cache |-> [c EXCEPT !.info = f.val, !.last_update = t2],
                  res |-> Ok(Unwrap(f.val)), fetched |-> 1]

\* Mutant: the timestamp is refreshed instead of aged.
InvalidateCache_NoAge(c, t) ==
    [c EXCEPT !.last_update = t]

\* Mutant: the stored snapshot is dropped as well.
InvalidateCache_DropInfo(c, t) ==
    [c EXCEPT !.info = None, !.last_update = t - InvalidateAgeMs]

InvalidateCache(c, t) ==
    [c EXCEPT !.last_update = t - InvalidateAgeMs]

\* Path::strip_prefix: the rest of path after base, by components.
StripPrefix(path, base) ==
    IF Len(base) <= Len(path) /\ SubSeq(path, 1, Len(base)) = base
    THEN Ok(SubSeq(path, Len(base) + 1, Len(path)))
    ELSE Err

\* self.repo_root()
RepoRootOf(r) == IF r.present THEN r.workdir ELSE None

\* Mutant: only the exact key is tried.
LookupStatus_ExactOnly(info, root, path) ==
    IF path \in DOMAIN info.file_statuses
    THEN Some(info.file_statuses[path])
    ELSE None

\* The lookup of get_file_status in snapshot info.
LookupStatus(info, root, path) ==
    IF path \in DOMAIN info.file_statuses
    THEN Some(info.file_statuses[path])
    ELSE IF IsSome(root) /\ StripPrefix(path, Unwrap(root)).ok
              /\ Unwrap(StripPrefix(path, Unwrap(root)).val)
                     \in DOMAIN info.file_statuses
         THEN Some(info.file_statuses[
                       Unwrap(StripPrefix(path, Unwrap(root)).val)])
         ELSE None

GetFileStatus(c, r, t, t2, path) ==
    LET g == GetStatus(c, r, t, t2)
    IN [cache |-> g.cache,
        res |-> IF g.res.ok
                THEN Ok(LookupStatus(Unwrap(g.res.val), RepoRootOf(r), path))
                ELSE Err,
        fetched |-> g.fetched]

\* Paths get_file_status is asked about: absolute (as watch events carry
\* them) and repo-relative.
Abs(rel) == RepoRoot \o rel
FileC == <<"c.txt">>
FileD == <<"src", "d.rs">>
RelPaths == {FileA, FileB, FileC, FileD}
QueryPaths == RelPaths \cup {Abs(p) : p \in RelPaths}

\* How long fetch_status may take.
FetchDelays == {0, TickMs}

NoCall ==
    [some |-> FALSE, t |-> 0, lu |-> 0, hadInfo |-> FALSE, fetched |-> 0,
     res |-> Err, after |-> <<None, 0>>, ret |-> 0, afterInv |-> FALSE]

CallRecord(c, g, t, t2, inv) ==
    [some |-> TRUE, t |-> t, lu |-> c.last_update, hadInfo |-> IsSome(c.info),
     fetched |-> g.fetched, res |-> g.res,
     after |-> <<g.cache.info, g.cache.last_update>>, ret |-> t2,
     afterInv |-> inv]

NoLook == [some |-> FALSE, path |-> <<>>, res |-> Err, info |-> None]

Pair(c) == <<c.info, c.last_update>>

\* No call in progress on any thread.
ConcIdle ==
    /\ lock = "free"
    /\ pc = [t \in Threads |-> "idle"]
    /\ tmp = [t \in Threads |-> None]
    /\ seenOk = [t \in Threads |-> TRUE]
    /\ ret = [t \in Threads |-> None]
    /\ committed = Pair(NewCache(0))
    /\ computed = {}
    /\ queued = [t \in Threads |-> "no"]

HistIdle ==
    /\ last = [call |-> NoCall, pred |-> NoCall]
    /\ invalidated = FALSE
    /\ looked = NoLook

\* The file explorer is not running.
NoOutcome ==
    [op |-> "none", res |-> "none", mode |-> "Normal", input_buffer |-> <<>>,
     marks |-> <<>>, deleted |-> {}, viaMain |-> TRUE, calls |-> 0]

AppIdle ==
    /\ app = <<>>
    /\ disk = <<>>
    /\ marked = <<>>
    /\ outcome = NoOutcome

\* No record is kept of the events sent and handed over.
NoTrace == [on |-> FALSE, sent |-> <<>>, handed |-> <<>>]

\* The main loop has not started.
LoopIdle ==
    /\ opts = [format |-> "pretty", git |-> FALSE]
    /\ running = TRUE
    /\ sender = TRUE
    /\ mainpc = "head"
    /\ event = None
    /\ git_status = None
    /\ steps = <<>>
    /\ outputs = 0
    /\ shutdown = "none"
    /\ late = 0
    /\ trace = NoTrace

\* No watcher: nothing watched, nothing in flight.
WatchIdle ==
    /\ fs = <<>>
    /\ gitignore = None
    /\ window = <<>>
    /\ channel = <<>>
    /\ flushed = [log |-> <<>>, errors |-> <<>>, sent |-> <<>>]

CacheInit ==
    /\ now = 0
    /\ repo \in RepoStates
    /\ cache = NewCache(now)
    /\ HistIdle
    /\ ConcIdle
    /\ WatchIdle
    /\ LoopIdle
    /\ AppIdle

\* monitor.get_status()
DoGetStatus ==
    \E d \in FetchDelays :
        LET g == GetStatus(cache, repo, now, now + d)
        IN /\ now + d <= MaxTime
           /\ cache' = g.cache
           /\ now' = IF g.fetched = 1 THEN now + d ELSE now
           /\ last' = [call |-> CallRecord(cache, g, now, now', invalidated),
                       pred |-> last.call]
           /\ invalidated' = FALSE
           /\ UNCHANGED <<repo, looked, concVars, watchVars, loopVars, appVars>>

\* monitor.invalidate_cache()
DoInvalidate ==
    /\ cache' = InvalidateCache(cache, now)
    /\ invalidated' = TRUE
    /\ UNCHANGED <<now, repo, last, looked, concVars, watchVars, loopVars, appVars>>

\* monitor.get_file_status(path)
DoGetFileStatus ==
    \E path \in QueryPaths, d \in FetchDelays :
        LET g == GetFileStatus(cache, repo, now, now + d, path)
        IN /\ now + d <= MaxTime
           /\ cache' = g.cache
           /\ now' = IF g.fetched = 1 THEN now + d ELSE now
           /\ looked' = [some |-> TRUE, path |-> path, res |-> g.res,
                         info |-> g.cache.info]
           /\ UNCHANGED <<repo, last, invalidated, concVars, watchVars, loopVars, appVars>>

\* Time passes.
Tick ==
    /\ now + TickMs <= MaxTime
    /\ now' = now + TickMs
    /\ UNCHANGED <<repo, cache, last, invalidated, looked, concVars, watchVars, loopVars,
                   appVars>>

\* Another process changes the repository (commit, checkout, edit).
RepoChange ==
    /\ repo.present
    /\ repo' \in {r \in RepoStates : r.present} \ {repo}
    /\ UNCHANGED <<now, cache, last, invalidated, looked, concVars, watchVars, loopVars,
                   appVars>>

CacheNext ==
    \/ DoGetStatus
    \/ DoInvalidate
    \/ Tick
    \/ RepoChange

Spec == CacheInit /\ [][CacheNext]_vars

----------------------------------------------------------------------------
(* Claims about the cache (specification Spec).  last.pred and last.call    *)
(* are two successive get_status calls; last.call.afterInv tells whether    *)
(* invalidate_cache ran between them.                                       *)

TwoCalls == last.pred.some /\ last.call.some /\ ~last.call.afterInv

\* C1 as stated, in the case most favourable to it (both calls return a
\* snapshot): two get_status calls made less than the TTL apart, with no
\* invalidate_cache between them, return equal snapshots and run
\* fetch_status at most once.  Violated: the first call can be a hit on a
\* snapshot that expires before the second call.
C1_AsStated ==
    (/\ TwoCalls
     /\ last.pred.res.ok /\ last.call.res.ok
     /\ last.call.t - last.pred.t < CacheDurationMs)
    => (/\ last.call.res = last.pred.res
        /\ last.pred.fetched + last.call.fetched <= 1)

\* C1 amended: two get_status calls with no invalidate_cache between them,
\* the second made less than the TTL after the cache's last_update as the
\* first call left it, return equal snapshots; the second call does not run
\* fetch_status, so it runs at most once across the two.
C1_WithinTtlOfUpdate ==
    (/\ TwoCalls
     /\ last.call.t - last.pred.after[2] < CacheDurationMs)
    => (/\ last.pred.res.ok /\ last.call.res.ok
        /\ last.call.res = last.pred.res
        /\ last.call.fetched = 0
        /\ last.pred.fetched + last.call.fetched <= 1)

\* Witness of C1: a recomputing call, the repository then changed, and a
\* second call 400 ms later that is served the same snapshot.
C1_Witness ==
    /\ TwoCalls
    /\ last.pred.fetched = 1 /\ last.pred.res.ok
    /\ last.call.t - last.pred.after[2] = 4 * TickMs
    /\ last.call.fetched = 0
    /\ FetchStatus(repo).ok /\ FetchStatus(repo) # last.call.res

\* C2: a get_status that follows an invalidate_cache always runs
\* fetch_status, however little time has passed since the last update.
C2_InvalidateForcesFetch ==
    (last.call.some /\ last.call.afterInv) => last.call.fetched = 1

\* Witness of C2: update, invalidate and get_status at the same instant; the
\* snapshot was stored and fresh, and fetch_status ran again.
C2_Witness ==
    /\ last.pred.some /\ last.pred.res.ok
    /\ last.call.some /\ last.call.afterInv
    /\ last.call.hadInfo
    /\ last.call.t = last.pred.after[2]
    /\ last.call.fetched = 1

\* C3: get_status serves the stored snapshot without fetch_status iff a
\* snapshot is stored and now - last_update < ttl (strictly); a hit returns
\* the stored snapshot and leaves the cache alone; otherwise fetch_status
\* runs and its result (when it yields one) is stored with last_update = the
\* time of the write-back and returned.
C3_HitIffFresh ==
    last.call.some =>
        /\ (last.call.fetched = 0)
              <=> (last.call.hadInfo
                   /\ last.call.t - last.call.lu < CacheDurationMs)
        /\ last.call.fetched = 0 =>
              /\ last.call.res.ok
              /\ last.call.res.val = last.call.after[1]
              /\ last.call.after[2] = last.call.lu
        /\ (last.call.fetched = 1 /\ last.call.res.ok) =>
              last.call.after = <<last.call.res.val, last.call.ret>>

\* Witness of C3, the scenario with ttl = 500 ms: a snapshot computed at
\* t = 0, a call at t = 100 served from the cache, a call at t = 600 that
\* recomputes.
C3_Witness ==
    /\ last.pred.some /\ last.call.some
    /\ last.pred.fetched = 0 /\ last.pred.t - last.pred.lu = 100
    /\ last.call.lu = last.pred.lu /\ last.call.t - last.call.lu = 600
    /\ last.call.hadInfo /\ last.call.fetched = 1 /\ last.call.res.ok

----------------------------------------------------------------------------
(* The cache under its mutex, called from two threads (specification        *)
(* SpecConc).  get_status and invalidate_cache are taken statement by       *)
(* statement; the MutexGuard is held from lock() to the return.             *)

ConcMaxTime == 200

\* Mutant: lock() that does not wait for the holder to release.
AcquireLock_NoWait(t) ==
    lock' = t

\* self.cache.lock().unwrap(): blocks until the mutex is free.
AcquireLock(t) ==
    /\ lock = "free"
    /\ lock' = t

\* Positions of get_status between the failed freshness test and the
\* return: the recomputation and its write-back.
Recomputing == {"gs_fetch", "gs_store_info", "gs_store_time"}

(* queued[t] follows a get_status call of thread t that found another       *)
(* thread recomputing: "waiting" while that recomputation runs, "fresh"     *)
(* once its result is stored, "lost" if it failed or the cache was          *)
(* invalidated since, "served" when t's own freshness test then passed.     *)

\* A thread calls get_status and waits for the mutex.
GsCall(t) ==
    /\ pc[t] = "idle"
    /\ pc' = [pc EXCEPT ![t] = "gs_lock"]
    /\ queued' = [queued EXCEPT ![t] =
                     IF \E u \in Threads \ {t} : pc[u] \in Recomputing
                     THEN "waiting" ELSE "no"]
    /\ UNCHANGED <<cacheVars, watchVars, loopVars, lock, tmp, seenOk, ret, committed, computed,
                   appVars>>

GsLock(t) ==
    /\ pc[t] = "gs_lock"
    /\ AcquireLock(t)
    /\ pc' = [pc EXCEPT ![t] = "gs_check"]
    /\ UNCHANGED <<cacheVars, watchVars, loopVars, tmp, seenOk, ret, committed,
                   computed, queued, appVars>>

\* Mutant: the guard is released before the recomputation.
GsCheck_UnlockOnMiss(t) ==
    /\ pc[t] = "gs_check"
    /\ seenOk' = [seenOk EXCEPT ![t] = (Pair(cache) = committed)]
    /\ IF CacheValid(cache, now)
       THEN /\ ret' = [ret EXCEPT ![t] = Some(Ok(Unwrap(cache.info)))]
            /\ pc' = [pc EXCEPT ![t] = "idle"]
            /\ lock' = "free"
            /\ queued' = [queued EXCEPT ![t] =
                             IF queued[t] = "fresh" THEN "served" ELSE "no"]
       ELSE /\ pc' = [pc EXCEPT ![t] = "gs_fetch"]
            /\ lock' = "free"
            /\ queued' = [u \in Threads |->
                             IF u = t THEN "no"
                             ELSE IF pc[u] = "gs_lock" THEN "waiting"
                             ELSE queued[u]]
            /\ UNCHANGED ret
    /\ UNCHANGED <<cacheVars, watchVars, loopVars, tmp, committed, computed,
                   appVars>>

\* git.rs:107-111: return a clone of the stored snapshot if still valid.
GsCheck(t) ==
    /\ pc[t] = "gs_check"
    /\ seenOk' = [seenOk EXCEPT ![t] = (Pair(cache) = committed)]
    /\ IF CacheValid(cache, now)
       THEN /\ ret' = [ret EXCEPT ![t] = Some(Ok(Unwrap(cache.info)))]
            /\ pc' = [pc EXCEPT ![t] = "idle"]
            /\ lock' = "free"
            /\ queued' = [queued EXCEPT ![t] =
                             IF queued[t] = "fresh" THEN "served" ELSE "no"]
       ELSE /\ pc' = [pc EXCEPT ![t] = "gs_fetch"]
            /\ queued' = [u \in Threads |->
                             IF u = t THEN "no"
                             ELSE IF pc[u] = "gs_lock" THEN "waiting"
                             ELSE queued[u]]
            /\ UNCHANGED <<ret, lock>>
    /\ UNCHANGED <<cacheVars, watchVars, loopVars, tmp, committed, computed,
                   appVars>>

\* git.rs:114: let info = self.fetch_status()?;
GsFetch(t) ==
    /\ pc[t] = "gs_fetch"
    /\ LET f == FetchStatus(repo)
       IN IF f.ok
          THEN /\ tmp' = [tmp EXCEPT ![t] = f.val]
               /\ computed' = computed \cup {Unwrap(f.val)}
               /\ pc' = [pc EXCEPT ![t] = "gs_store_info"]
               /\ UNCHANGED <<ret, lock, queued>>
          ELSE /\ ret' = [ret EXCEPT ![t] = Some(Err)]
               /\ pc' = [pc EXCEPT ![t] = "idle"]
               /\ lock' = "free"
               /\ queued' = [u \in Threads |->
                                IF queued[u] = "waiting" THEN "lost"
                                ELSE queued[u]]
               /\ UNCHANGED <<tmp, computed>>
    /\ UNCHANGED <<cacheVars, watchVars, loopVars, seenOk, committed, appVars>>

\* Mutant: the new entries are merged into the stored snapshot's map.
GsStoreInfo_MergeInPlace(t) ==
    /\ pc[t] = "gs_store_info"
    /\ cache' =
          [cache EXCEPT !.info =
              IF IsSome(cache.info)
              THEN Some([Unwrap(tmp[t]) EXCEPT !.file_statuses =
                            Unwrap(tmp[t]).file_statuses
                                @@ Unwrap(cache.info).file_statuses])
              ELSE tmp[t]]
    /\ pc' = [pc EXCEPT ![t] = "gs_store_time"]
    /\ UNCHANGED <<now, repo, last, invalidated, looked, lock, tmp, seenOk,
                   ret, committed, computed, queued, watchVars, loopVars,
                   appVars>>

\* git.rs:115: cache.info = Some(info.clone());
GsStoreInfo(t) ==
    /\ pc[t] = "gs_store_info"
    /\ cache' = [cache EXCEPT !.info = tmp[t]]
    /\ pc' = [pc EXCEPT ![t] = "gs_store_time"]
    /\ UNCHANGED <<now, repo, last, invalidated, looked, lock, tmp, seenOk,
                   ret, committed, computed, queued, watchVars, loopVars,
                   appVars>>

\* git.rs:116-119: cache.last_update = Instant::now(); Ok(info); the guard
\* is dropped.
GsStoreTime(t) ==
    /\ pc[t] = "gs_store_time"
    /\ cache' = [cache EXCEPT !.last_update = now]
    /\ committed' = Pair(cache')
    /\ ret' = [ret EXCEPT ![t] = Some(Ok(Unwrap(tmp[t])))]
    /\ tmp' = [tmp EXCEPT ![t] = None]
    /\ pc' = [pc EXCEPT ![t] = "idle"]
    /\ lock' = "free"
    /\ queued' = [u \in Threads |->
                     IF queued[u] = "waiting" THEN "fresh" ELSE queued[u]]
    /\ UNCHANGED <<now, repo, last, invalidated, looked, seenOk, computed,
                   watchVars, loopVars, appVars>>

\* A thread calls invalidate_cache and waits for the mutex.
InvCall(t) ==
    /\ pc[t] = "idle"
    /\ pc' = [pc EXCEPT ![t] = "inv_lock"]
    /\ UNCHANGED <<cacheVars, watchVars, loopVars, lock, tmp, seenOk, ret, committed,
                   computed, queued, appVars>>

InvLock(t) ==
    /\ pc[t] = "inv_lock"
    /\ AcquireLock(t)
    /\ pc' = [pc EXCEPT ![t] = "inv_store"]
    /\ UNCHANGED <<cacheVars, watchVars, loopVars, tmp, seenOk, ret, committed,
                   computed, queued, appVars>>

\* git.rs:123: cache.last_update = Instant::now() - Duration::from_secs(10);
InvStore(t) ==
    /\ pc[t] = "inv_store"
    /\ seenOk' = [seenOk EXCEPT ![t] = (Pair(cache) = committed)]
    /\ cache' = InvalidateCache(cache, now)
    /\ committed' = Pair(cache')
    /\ pc' = [pc EXCEPT ![t] = "idle"]
    /\ lock' = "free"
    /\ queued' = [u \in Threads |->
                     IF queued[u] = "fresh" THEN "lost" ELSE queued[u]]
    /\ UNCHANGED <<now, repo, last, invalidated, looked, tmp, ret, computed,
                   watchVars, loopVars, appVars>>

ConcTick ==
    /\ now + TickMs <= ConcMaxTime
    /\ now' = now + TickMs
    /\ UNCHANGED <<repo, cache, last, invalidated, looked, concVars, watchVars, loopVars,
                   appVars>>

ConcInit ==
    /\ now = 0
    /\ repo \in {r \in RepoStates : r.present}
    /\ cache = NewCache(now)
    /\ HistIdle
    /\ ConcIdle
    /\ WatchIdle
    /\ LoopIdle
    /\ AppIdle

ConcNext ==
    \/ \E t \in Threads : GsCall(t)
    \/ \E t \in Threads : GsLock(t)
    \/ \E t \in Threads : GsCheck(t)
    \/ \E t \in Threads : GsFetch(t)
    \/ \E t \in Threads : GsStoreInfo(t)
    \/ \E t \in Threads : GsStoreTime(t)
    \/ \E t \in Threads : InvCall(t)
    \/ \E t \in Threads : InvLock(t)
    \/ \E t \in Threads : InvStore(t)
    \/ ConcTick
    \/ RepoChange

SpecConc == ConcInit /\ [][ConcNext]_vars

\* C4: in every interleaving of get_status and invalidate_cache on two
\* threads, every snapshot returned is, as a whole, the result of one
\* fetch_status, and the stored (info, last_update) pair is only read or
\* written as a complete call left it, never between the two assignments of
\* a write-back.
C4_NoTornSnapshot ==
    /\ \A t \in Threads : seenOk[t]
    /\ \A t \in Threads :
          (IsSome(ret[t]) /\ Unwrap(ret[t]).ok)
              => Unwrap(Unwrap(ret[t]).val) \in computed
    /\ lock = "free" => Pair(cache) = committed
    /\ \A t, u \in Threads :
          (t # u /\ pc[t] = "gs_store_time")
              => pc[u] \in {"idle", "gs_lock", "inv_lock"}

\* Witness of C4: one thread is between the two assignments of its
\* write-back while the other has called and waits for the mutex; and the
\* waiting thread has been served a snapshot before.
C4_Witness ==
    \E t, u \in Threads :
        /\ t # u
        /\ pc[t] = "gs_store_time" /\ lock = t
        /\ Pair(cache) # committed
        /\ pc[u] = "gs_lock"
        /\ IsSome(ret[u]) /\ Unwrap(ret[u]).ok

----------------------------------------------------------------------------
(* get_file_status over the repositories of LookupRepos (specification      *)
(* SpecLookup).  fetch_status keys file_statuses by entry.path(), which     *)
(* git2 reports relative to the repository root.                            *)

LookupFlags == {{"wt_new"}, {"index_modified", "wt_modified"}}

LookupRepos ==
    {[RepoBase EXCEPT !.entries = e] :
        e \in UNION {[S -> LookupFlags] : S \in SUBSET RelPaths}}
    \cup {RepoBroken, RepoAbsent}

LookupInit ==
    /\ now = 0
    /\ repo \in LookupRepos
    /\ cache = NewCache(now)
    /\ HistIdle
    /\ ConcIdle
    /\ WatchIdle
    /\ LoopIdle
    /\ AppIdle

LookupNext ==
    \/ DoGetFileStatus
    \/ Tick

SpecLookup == LookupInit /\ [][LookupNext]_vars

\* The other form of a path: repo-relative for an absolute path under the
\* repository root, absolute for a relative one.
Twin(path) ==
    IF StripPrefix(path, RepoRoot).ok
    THEN Unwrap(StripPrefix(path, RepoRoot).val)
    ELSE Abs(path)

\* C5: get_file_status gives the same answer for the absolute path of a file
\* and for its repo-relative path: for the path just asked about and its
\* other form, and for every file recorded in the snapshot.
C5_AbsoluteAndRelativeAgree ==
    (looked.some /\ looked.res.ok) =>
        LET info == Unwrap(looked.info)
            root == RepoRootOf(repo)
        IN /\ looked.res = Ok(LookupStatus(info, root, Twin(looked.path)))
           /\ \A f \in DOMAIN info.file_statuses :
                 /\ LookupStatus(info, root, Abs(f)) = Some(info.file_statuses[f])
                 /\ LookupStatus(info, root, f) = Some(info.file_statuses[f])

\* Witness of C5: the status of a recorded file in a subdirectory was
\* resolved through its absolute path.
C5_Witness ==
    /\ looked.some
    /\ looked.path = Abs(FileD)
    /\ looked.res = Ok(Some("Staged"))

----------------------------------------------------------------------------
(* FileWatcher: watcher.rs.  Paths are absolute (main.rs canonicalizes the  *)
(* watch path); the watch root is the repository root.                      *)

WatchRoot == RepoRoot
TmpFile == WatchRoot \o <<"x.tmp">>
TxtFile == WatchRoot \o <<"x.txt">>
TargetDir == WatchRoot \o <<"target">>
WatchPaths == {TmpFile, TxtFile, TargetDir}

\* What a path of the tree can be when it exists.
KindsOf(p) == IF p = TargetDir THEN {"dir"} ELSE {"file"}

\* Path::is_dir(): a metadata query on the tree as it is now.
IsDir(tree, p) == p \in DOMAIN tree /\ tree[p] = "dir"

\* WatchEvent
Created(p) == [type |-> "Created", path |-> Some(p), msg |-> ""]
Modified(p) == [type |-> "Modified", path |-> Some(p), msg |-> ""]
Deleted(p) == [type |-> "Deleted", path |-> Some(p), msg |-> ""]
ErrorEvent(m) == [type |-> "Error", path |-> None, msg |-> m]
Renamed(from, to) ==
    [type |-> "Renamed", path |-> Some(to), msg |-> "", from |-> Some(from)]

\* WatchEvent::path(): the payload of Created, Modified and Deleted, the
\* new name of Renamed, nothing for Error.
PathOf(ev) == IF ev.type = "Error" THEN None ELSE ev.path

(* IgnoreMatcher: a Gitignore is the sequence of its patterns, in the order *)
(* the lines were added to the GitignoreBuilder.  A pattern without a slash *)
(* is matched against the last component of the candidate path; a trailing  *)
(* slash makes it match directories only; a leading ! makes it a whitelist  *)
(* pattern; the last pattern that matches decides.                          *)

ExtOf(name) ==
    CASE name = "x.tmp" -> "tmp"
      [] name = "x.txt" -> "txt"
      [] name = "y.tmp" -> "tmp"
      [] OTHER -> ""

ParseLine(line) ==
    CASE line = ".git" ->
           [kind |-> "name", arg |-> ".git", dirOnly |-> FALSE, neg |-> FALSE]
      [] line = "target/" ->
           [kind |-> "name", arg |-> "target", dirOnly |-> TRUE, neg |-> FALSE]
      [] line = "node_modules/" ->
           [kind |-> "name", arg |-> "node_modules", dirOnly |-> TRUE, neg |-> FALSE]
      [] line = "*.swp" ->
           [kind |-> "ext", arg |-> "swp", dirOnly |-> FALSE, neg |-> FALSE]
      [] line = "*.tmp" ->
           [kind |-> "ext", arg |-> "tmp", dirOnly |-> FALSE, neg |-> FALSE]
      [] line = ".DS_Store" ->
           [kind |-> "name", arg |-> ".DS_Store", dirOnly |-> FALSE, neg |-> FALSE]
      [] line = "!*.tmp" ->
           [kind |-> "ext", arg |-> "tmp", dirOnly |-> FALSE, neg |-> TRUE]
      [] line = "*.txt" ->
           [kind |-> "ext", arg |-> "txt", dirOnly |-> FALSE, neg |-> FALSE]

AddLines(lines) == [i \in 1..Len(lines) |-> ParseLine(lines[i])]

GlobMatches(pat, rel) ==
    /\ Len(rel) > 0
    /\ IF pat.kind = "name"
       THEN rel[Len(rel)] = pat.arg
       ELSE ExtOf(rel[Len(rel)]) = pat.arg

\* Gitignore::matched(path, is_dir): "ignore", "whitelist" or "none".
Matched(gi, rel, is_dir) ==
    LET hits == {i \in 1..Len(gi) :
                    GlobMatches(gi[i], rel) /\ (~gi[i].dirOnly \/ is_dir)}
    IN IF hits = {} THEN "none"
       ELSE LET i == CHOOSE j \in hits : \A k \in hits : k <= j
            IN IF gi[i].neg THEN "whitelist" ELSE "ignore"

BuiltinLines ==
    <<".git", "target/", "node_modules/", "*.swp", "*.tmp", ".DS_Store">>

\* Mutant: the built-in lines are added after the caller's.
LoadGitignore_BuiltinsLast(file, custom_ignores) ==
    Some((IF IsSome(file) THEN AddLines(Unwrap(file)) ELSE <<>>)
         \o AddLines(custom_ignores) \o AddLines(BuiltinLines))

\* file: Option of the lines of <root>/.gitignore
LoadGitignore(file, custom_ignores) ==
    Some((IF IsSome(file) THEN AddLines(Unwrap(file)) ELSE <<>>)
         \o AddLines(BuiltinLines) \o AddLines(custom_ignores))

BuildCustomIgnore(patterns) == Some(AddLines(patterns))

\* FileWatcher::new, lines 57-64
NewGitignore(use_gitignore, file, custom_ignores) ==
    IF use_gitignore THEN LoadGitignore(file, custom_ignores)
    ELSE IF custom_ignores # <<>> THEN BuildCustomIgnore(custom_ignores)
    ELSE None

GitignoreFiles == {None, Some(<<"*.txt">>)}
CustomIgnores == {<<>>, <<"*.tmp">>, <<"!*.tmp">>}

(* The debouncer (notify_debouncer_full) merges the raw notifications of    *)
(* one window per path: the last non-delete kind wins, a delete of a path   *)
(* created inside the window cancels its entry, a delete of an older path   *)
(* replaces its entry.  Kinds the translation has no variant for pass       *)
(* through unmerged.                                                        *)

IndexOf(pending, path) ==
    LET I == {i \in 1..Len(pending) :
                 pending[i].kind # "access" /\ pending[i].paths = <<path>>}
    IN IF I = {} THEN 0 ELSE CHOOSE i \in I : TRUE

RemoveAt(sq, i) == SubSeq(sq, 1, i - 1) \o SubSeq(sq, i + 1, Len(sq))

Merge(pending, ev) ==
    IF ev.kind = "access" \/ Len(ev.paths) # 1
    THEN Append(pending, [kind |-> ev.kind, paths |-> ev.paths, born |-> FALSE])
    ELSE LET i == IndexOf(pending, ev.paths[1])
         IN IF i = 0
            THEN Append(pending, [kind |-> ev.kind, paths |-> ev.paths,
                                  born |-> (ev.kind = "create")])
            ELSE IF ev.kind = "remove"
            THEN (IF pending[i].born THEN RemoveAt(pending, i)
                  ELSE [pending EXCEPT ![i].kind = "remove"])
            ELSE [pending EXCEPT ![i].kind = ev.kind]

RECURSIVE CoalesceFrom(_, _)
CoalesceFrom(pending, log) ==
    IF log = <<>> THEN pending
    ELSE CoalesceFrom(Merge(pending, Head(log)), Tail(log))

Coalesce(log) == CoalesceFrom(<<>>, log)

\* Mutant: the imprecise kind Any has no arm and falls to the default.
ConvertEvent_AnyDropped(ev, gi, base, tree) ==
    IF /\ IsSome(gi)
       /\ \E i \in 1..Len(ev.paths) :
             /\ StripPrefix(ev.paths[i], base).ok
             /\ Matched(Unwrap(gi), Unwrap(StripPrefix(ev.paths[i], base).val),
                        IsDir(tree, ev.paths[i])) = "ignore"
    THEN None
    ELSE IF Len(ev.paths) = 0 THEN None
    ELSE CASE ev.kind = "create" -> Some(Created(ev.paths[1]))
           [] ev.kind = "modify" -> Some(Modified(ev.paths[1]))
           [] ev.kind = "remove" -> Some(Deleted(ev.paths[1]))
           [] OTHER -> None

\* Mutant: Create and Modify swapped in the kind match.
ConvertEvent_Swapped(ev, gi, base, tree) ==
    IF /\ IsSome(gi)
       /\ \E i \in 1..Len(ev.paths) :
             /\ StripPrefix(ev.paths[i], base).ok
             /\ Matched(Unwrap(gi), Unwrap(StripPrefix(ev.paths[i], base).val),
                        IsDir(tree, ev.paths[i])) = "ignore"
    THEN None
    ELSE IF Len(ev.paths) = 0 THEN None
    ELSE CASE ev.kind = "create" -> Some(Modified(ev.paths[1]))
           [] ev.kind = "modify" -> Some(Created(ev.paths[1]))
           [] ev.kind = "remove" -> Some(Deleted(ev.paths[1]))
           [] ev.kind = "any" -> Some(Modified(ev.paths[1]))
           [] OTHER -> None

\* Mutant: a kind without a variant is reported as an Error event.
ConvertEvent_ErrorOnUnmapped(ev, gi, base, tree) ==
    IF /\ IsSome(gi)
       /\ \E i \in 1..Len(ev.paths) :
             /\ StripPrefix(ev.paths[i], base).ok
             /\ Matched(Unwrap(gi), Unwrap(StripPrefix(ev.paths[i], base).val),
                        IsDir(tree, ev.paths[i])) = "ignore"
    THEN None
    ELSE IF Len(ev.paths) = 0 THEN None
    ELSE CASE ev.kind = "create" -> Some(Created(ev.paths[1]))
           [] ev.kind = "modify" -> Some(Modified(ev.paths[1]))
           [] ev.kind = "remove" -> Some(Deleted(ev.paths[1]))
           [] ev.kind = "any" -> Some(Modified(ev.paths[1]))
           [] OTHER -> Some(ErrorEvent("unsupported event"))

\* Mutant: a Modify that names two paths is paired into a Renamed event.
ConvertEvent_RenamePairs(ev, gi, base, tree) ==
    IF /\ IsSome(gi)
       /\ \E i \in 1..Len(ev.paths) :
             /\ StripPrefix(ev.paths[i], base).ok
             /\ Matched(Unwrap(gi), Unwrap(StripPrefix(ev.paths[i], base).val),
                        IsDir(tree, ev.paths[i])) = "ignore"
    THEN None
    ELSE IF Len(ev.paths) = 0 THEN None
    ELSE CASE ev.kind = "create" -> Some(Created(ev.paths[1]))
           [] ev.kind = "modify" /\ Len(ev.paths) = 2 ->
                Some(Renamed(ev.paths[1], ev.paths[2]))
           [] ev.kind = "modify" -> Some(Modified(ev.paths[1]))
           [] ev.kind = "remove" -> Some(Deleted(ev.paths[1]))
           [] ev.kind = "any" -> Some(Modified(ev.paths[1]))
           [] OTHER -> None

\* Mutant: every path is tested, relative to the root or not.
ConvertEvent_FilterAll(ev, gi, base, tree) ==
    IF /\ IsSome(gi)
       /\ \E i \in 1..Len(ev.paths) :
             Matched(Unwrap(gi),
                     IF StripPrefix(ev.paths[i], base).ok
                     THEN Unwrap(StripPrefix(ev.paths[i], base).val)
                     ELSE ev.paths[i],
                     IsDir(tree, ev.paths[i])) = "ignore"
    THEN None
    ELSE IF Len(ev.paths) = 0 THEN None
    ELSE CASE ev.kind = "create" -> Some(Created(ev.paths[1]))
           [] ev.kind = "modify" -> Some(Modified(ev.paths[1]))
           [] ev.kind = "remove" -> Some(Deleted(ev.paths[1]))
           [] ev.kind = "any" -> Some(Modified(ev.paths[1]))
           [] OTHER -> None

\* convert_event: the ignore filter, then the kind match.
ConvertEvent(ev, gi, base, tree) ==
    IF /\ IsSome(gi)
       /\ \E i \in 1..Len(ev.paths) :
             /\ StripPrefix(ev.paths[i], base).ok
             /\ Matched(Unwrap(gi), Unwrap(StripPrefix(ev.paths[i], base).val),
                        IsDir(tree, ev.paths[i])) = "ignore"
    THEN None
    ELSE IF Len(ev.paths) = 0 THEN None
    ELSE CASE ev.kind = "create" -> Some(Created(ev.paths[1]))
           [] ev.kind = "modify" -> Some(Modified(ev.paths[1]))
           [] ev.kind = "remove" -> Some(Deleted(ev.paths[1]))
           [] ev.kind = "any" -> Some(Modified(ev.paths[1]))
           [] OTHER -> None

DebounceOk(events) == [ok |-> TRUE, events |-> events, errors |-> <<>>]
DebounceErr(errors) == [ok |-> FALSE, events |-> <<>>, errors |-> errors]

RECURSIVE SendAll(_, _, _, _)
SendAll(events, gi, base, tree) ==
    IF events = <<>> THEN <<>>
    ELSE ConvertEvent(Head(events), gi, base, tree)
            \o SendAll(Tail(events), gi, base, tree)

RECURSIVE SendUntilDropped(_, _, _, _)
SendUntilDropped(events, gi, base, tree) ==
    IF events = <<>> THEN <<>>
    ELSE IF IsNone(ConvertEvent(Head(events), gi, base, tree)) THEN <<>>
    ELSE ConvertEvent(Head(events), gi, base, tree)
            \o SendUntilDropped(Tail(events), gi, base, tree)

\* Mutant: only the first error of the batch is sent.
HandleEvents_FirstErrorOnly(result, gi, base, tree) ==
    IF result.ok
    THEN SendAll(result.events, gi, base, tree)
    ELSE <<ErrorEvent(result.errors[1])>>

\* Mutant: the loop over the batch ends at the first event that is dropped.
HandleEvents_StopAtDropped(result, gi, base, tree) ==
    IF result.ok
    THEN SendUntilDropped(result.events, gi, base, tree)
    ELSE [i \in 1..Len(result.errors) |-> ErrorEvent(result.errors[i])]

\* Mutant: the batch is walked from its last event to its first.
HandleEvents_Reversed(result, gi, base, tree) ==
    IF result.ok
    THEN LET out == SendAll(result.events, gi, base, tree)
         IN [i \in 1..Len(out) |-> out[Len(out) + 1 - i]]
    ELSE [i \in 1..Len(result.errors) |-> ErrorEvent(result.errors[i])]

\* handle_events: the events it sends on the channel, in order.
HandleEvents(result, gi, base, tree) ==
    IF result.ok
    THEN SendAll(result.events, gi, base, tree)
    ELSE [i \in 1..Len(result.errors) |-> ErrorEvent(result.errors[i])]

MaxWindow == 3
ChanCap == 2

ErrorBatches == {<<"watch error">>, <<"watch error", "io error">>}

\* What the last run of the callback took and sent; none once a new
\* notification has arrived.
NoFlush == [log |-> <<>>, errors |-> <<>>, sent |-> <<>>]

\* A raw notification; dir records whether it is about a directory.
Raw(kind, p, dir) == [kind |-> kind, paths |-> <<p>>, dir |-> dir]

WatchInit ==
    /\ now = 0
    /\ repo = RepoBase
    /\ cache = NewCache(now)
    /\ HistIdle
    /\ ConcIdle
    /\ LoopIdle
    /\ AppIdle
    /\ fs \in {t \in [WatchPaths -> {"absent", "file", "dir"}] :
                  \A p \in WatchPaths : t[p] \in KindsOf(p) \cup {"absent"}}
    /\ \E u \in BOOLEAN, f \in GitignoreFiles, c \in CustomIgnores :
          gitignore = NewGitignore(u, f, c)
    /\ window = <<>>
    /\ channel = <<>>
    /\ flushed = NoFlush

FsCreate(p) ==
    /\ fs[p] = "absent"
    /\ Len(window) < MaxWindow
    /\ flushed' = NoFlush
    /\ \E k \in KindsOf(p) :
          /\ fs' = [fs EXCEPT ![p] = k]
          /\ window' = Append(window, Raw("create", p, k = "dir"))
    /\ UNCHANGED <<gitignore, channel, cacheVars, concVars, loopVars, appVars>>

FsModify(p) ==
    /\ fs[p] # "absent"
    /\ Len(window) < MaxWindow
    /\ flushed' = NoFlush
    /\ window' = Append(window, Raw("modify", p, fs[p] = "dir"))
    /\ UNCHANGED <<fs, gitignore, channel, cacheVars, concVars, loopVars, appVars>>

FsRemove(p) ==
    /\ fs[p] # "absent"
    /\ Len(window) < MaxWindow
    /\ flushed' = NoFlush
    /\ fs' = [fs EXCEPT ![p] = "absent"]
    /\ window' = Append(window, Raw("remove", p, fs[p] = "dir"))
    /\ UNCHANGED <<gitignore, channel, cacheVars, concVars, loopVars, appVars>>

\* Notifications of kind Any (imprecise) and Access.
RawOther(p, k) ==
    /\ fs[p] # "absent"
    /\ Len(window) < MaxWindow
    /\ flushed' = NoFlush
    /\ window' = Append(window, Raw(k, p, fs[p] = "dir"))
    /\ UNCHANGED <<fs, gitignore, channel, cacheVars, concVars, loopVars, appVars>>

\* The debounce window ends: the callback runs handle_events(Ok(batch)).
Flush ==
    /\ window # <<>>
    /\ LET sent == HandleEvents(DebounceOk(Coalesce(window)), gitignore,
                                WatchRoot, fs)
       IN /\ Len(channel) + Len(sent) <= ChanCap
          /\ channel' = channel \o sent
          /\ flushed' = [log |-> window, errors |-> <<>>, sent |-> sent]
    /\ window' = <<>>
    /\ UNCHANGED <<fs, gitignore, cacheVars, concVars, loopVars, appVars>>

\* The watcher reports errors: the callback runs handle_events(Err(errors)).
FlushErrors ==
    \E errors \in ErrorBatches :
        LET sent == HandleEvents(DebounceErr(errors), gitignore, WatchRoot, fs)
        IN /\ Len(channel) + Len(sent) <= ChanCap
           /\ channel' = channel \o sent
           /\ flushed' = [log |-> <<>>, errors |-> errors, sent |-> sent]
           /\ UNCHANGED <<fs, gitignore, window, cacheVars, concVars, loopVars, appVars>>

\* The consumer takes the next event off the channel.
Drain ==
    /\ channel # <<>>
    /\ channel' = Tail(channel)
    /\ UNCHANGED <<fs, gitignore, window, flushed, cacheVars, concVars, loopVars,
                   appVars>>

WatchNext ==
    \/ \E p \in WatchPaths : FsCreate(p)
    \/ \E p \in WatchPaths : FsModify(p)
    \/ \E p \in WatchPaths : FsRemove(p)
    \/ \E p \in WatchPaths, k \in {"any", "access"} : RawOther(p, k)
    \/ Flush
    \/ FlushErrors
    \/ Drain

SpecWatch == WatchInit /\ [][WatchNext]_vars

(* Claims about one run of the callback: flushed.log is the window it took, *)
(* flushed.sent the events it sent on the channel.                          *)

\* The raw notifications of the window that reference only path p.
BurstOf(log, p) ==
    LET about(r) == r.paths = <<p>> IN SelectSeq(log, about)

\* The events sent for path p.
SentFor(sent, p) ==
    LET for(e) == e.path = Some(p) IN SelectSeq(sent, for)

OnlyCreateModify(b) ==
    b # <<>> /\ \A i \in 1..Len(b) : b[i].kind \in {"create", "modify"}

CreateThenDelete(b) ==
    Len(b) = 2 /\ b[1].kind = "create" /\ b[2].kind = "remove"

KindName(k) == IF k = "create" THEN "Created" ELSE "Modified"

\* The compiled rules match path p, an object of the given kind.
RulesMatch(p, dir) ==
    /\ IsSome(gitignore)
    /\ StripPrefix(p, WatchRoot).ok
    /\ Matched(Unwrap(gitignore), Unwrap(StripPrefix(p, WatchRoot).val), dir)
          = "ignore"

(* C7 as stated: a burst of create/modify notifications on one path inside  *)
(* one window puts exactly one event for that path on the channel, of the   *)
(* last kind of the burst; a create followed by a delete puts none.         *)
C7_AsStated ==
    \A p \in WatchPaths :
        LET b == BurstOf(flushed.log, p)
            out == SentFor(flushed.sent, p)
        IN /\ OnlyCreateModify(b) =>
                 Len(out) = 1 /\ out[1].type = KindName(b[Len(b)].kind)
           /\ CreateThenDelete(b) => out = <<>>

(* C7, amended: the burst yields exactly one event of the last kind when    *)
(* the ignore rules do not match the path, and no event when they do; a     *)
(* create followed by a delete yields none.                                 *)
C7_OneEventUnlessIgnored ==
    \A p \in WatchPaths :
        LET b == BurstOf(flushed.log, p)
            out == SentFor(flushed.sent, p)
        IN /\ OnlyCreateModify(b) /\ ~RulesMatch(p, b[Len(b)].dir) =>
                 Len(out) = 1 /\ out[1].type = KindName(b[Len(b)].kind)
           /\ OnlyCreateModify(b) /\ RulesMatch(p, b[Len(b)].dir) =>
                 out = <<>>
           /\ CreateThenDelete(b) => out = <<>>

\* A burst of three on x.txt, a create and two modifies, was sent as the
\* single event Modified(x.txt).
C7_Witness ==
    /\ Len(BurstOf(flushed.log, TxtFile)) = 3
    /\ BurstOf(flushed.log, TxtFile)[1].kind = "create"
    /\ BurstOf(flushed.log, TxtFile)[3].kind = "modify"
    /\ OnlyCreateModify(BurstOf(flushed.log, TxtFile))
    /\ ~RulesMatch(TxtFile, FALSE)
    /\ flushed.sent = <<Modified(TxtFile)>>

(* C8 as stated: a raw event of kind create, modify, remove or any that     *)
(* references only a path the compiled rules match never results in an      *)
(* event on the channel.                                                    *)
C8_AsStated ==
    \A p \in WatchPaths :
        LET b == BurstOf(flushed.log, p)
        IN (/\ b # <<>>
            /\ \A i \in 1..Len(b) :
                  /\ b[i].kind \in {"create", "modify", "remove", "any"}
                  /\ RulesMatch(p, b[i].dir))
           => SentFor(flushed.sent, p) = <<>>

\* The window of the scenario: x.tmp created, then x.txt created.
TmpThenTxt ==
    /\ Len(flushed.log) = 2
    /\ flushed.log[1].kind = "create" /\ flushed.log[1].paths = <<TmpFile>>
    /\ flushed.log[2].kind = "create" /\ flushed.log[2].paths = <<TxtFile>>

(* C9: with *.tmp in force (and x.txt itself not ignored), a window in      *)
(* which x.tmp and then x.txt are created sends exactly Created(x.txt).     *)
C9_OnlyTxtDelivered ==
    (TmpThenTxt /\ RulesMatch(TmpFile, FALSE) /\ ~RulesMatch(TxtFile, FALSE))
        => flushed.sent = <<Created(TxtFile)>>

C9_Witness ==
    /\ TmpThenTxt
    /\ RulesMatch(TmpFile, FALSE)
    /\ flushed.sent = <<Created(TxtFile)>>
    /\ channel = <<Created(TxtFile)>>

----------------------------------------------------------------------------
(* The event loop of main (main.rs).  The main thread runs the loop; the    *)
(* debouncer thread sends on the channel; the signal-handler thread clears  *)
(* the running flag.                                                        *)

RecvTimeoutMs == 100
LoopMaxTime == 200
LoopChanCap == 2

Formats == {"json", "pretty", "events", "summary"}

\* Events the callback may send.
LoopEvents ==
    {Created(TxtFile), Modified(Abs(FileA)), Deleted(Abs(FileB)),
     ErrorEvent("watch error")}

\* Mutant: the flag read at the loop head is ignored.
AfterHead_IgnoreFlag(r) == "recv"

\* while running.load(..): where control goes from the loop head.
AfterHead(r) == IF r THEN "recv" ELSE "stopped"

\* Mutant: a receive without timeout, which waits while the channel is
\* empty and the sender alive.
RecvTimeout_Blocking(chan, alive) ==
    IF chan # <<>> THEN "ok"
    ELSE IF alive THEN "wait" ELSE "disconnected"

\* receiver.recv_timeout(100 ms): which arm of the match is taken.
RecvTimeout(chan, alive) ==
    IF chan # <<>> THEN "ok"
    ELSE IF alive THEN "timeout" ELSE "disconnected"

\* Mutant: the periodic status is read in every mode.
TimeoutReads_AnyMode(format, git) == git

\* The Timeout arm: whether it calls get_status.
TimeoutReads(format, git) == format = "summary" /\ git

\* Mutant: the status is resolved without invalidating first.
AfterRecv_NoInvalidate(git, ev) ==
    IF git /\ IsSome(ev.path) THEN "resolve" ELSE "format"

\* The Ok(event) arm: what is done before format_event.
AfterRecv(git, ev) ==
    IF git /\ IsSome(ev.path) THEN "invalidate" ELSE "format"

\* Most events a kept record holds.
MaxSent == 3

\* The record of the events sent and handed over, where one is kept.
TraceRoom(tr, n) == tr.on => Len(tr.sent) + n <= MaxSent
TraceSent(tr, events) == IF tr.on THEN [tr EXCEPT !.sent = @ \o events] ELSE tr
TraceHanded(tr, ev) == IF tr.on THEN [tr EXCEPT !.handed = Append(@, ev)] ELSE tr

LoopInit ==
    /\ now = 0
    /\ repo \in RepoStates
    /\ cache = NewCache(now)
    /\ HistIdle
    /\ ConcIdle
    /\ WatchIdle
    /\ opts \in [format : Formats, git : BOOLEAN]
    /\ running = TRUE
    /\ sender = TRUE
    /\ mainpc = "start"
    /\ event = None
    /\ git_status = None
    /\ steps = <<>>
    /\ outputs = 0
    /\ shutdown = "none"
    /\ late = 0
    /\ trace = NoTrace
    /\ AppIdle

\* Before the loop: the initial status of the pretty and summary modes.
LoopStart ==
    /\ mainpc = "start"
    /\ cache' = IF opts.format \in {"pretty", "summary"} /\ opts.git
                THEN GetStatus(cache, repo, now, now).cache
                ELSE cache
    /\ mainpc' = "head"
    /\ UNCHANGED <<now, repo, last, invalidated, looked, concVars, watchVars,
                   opts, running, sender, event, git_status, steps, outputs,
                   shutdown, late,
                   trace, appVars>>

LoopHead ==
    /\ mainpc = "head"
    /\ mainpc' = AfterHead(running)
    /\ shutdown' = IF running THEN shutdown ELSE "cancelled"
    /\ UNCHANGED <<cacheVars, concVars, watchVars, opts, running, sender,
                   event, git_status, steps, outputs, late,
                   trace, appVars>>

\* recv_timeout returns Ok(event).
LoopRecvOk ==
    /\ mainpc = "recv"
    /\ RecvTimeout(channel, sender) = "ok"
    /\ event' = Some(Head(channel))
    /\ channel' = Tail(channel)
    /\ git_status' = None
    /\ steps' = <<>>
    /\ outputs' = 0
    /\ mainpc' = AfterRecv(opts.git, Head(channel))
    /\ late' = IF running THEN late ELSE late + 1
    /\ UNCHANGED <<cacheVars, concVars, fs, gitignore, window, flushed, opts,
                   running, sender, shutdown, trace, appVars>>

\* recv_timeout returns Err(Timeout): the periodic status of summary mode.
\* The iteration has no event; steps records the get_status call and the
\* heartbeat print.  The clock stops at LoopMaxTime.
LoopRecvTimeout ==
    /\ mainpc = "recv"
    /\ RecvTimeout(channel, sender) = "timeout"
    /\ now' = IF now + RecvTimeoutMs <= LoopMaxTime
              THEN now + RecvTimeoutMs ELSE now
    /\ LET g == GetStatus(cache, repo, now', now')
       IN IF TimeoutReads(opts.format, opts.git)
          THEN /\ cache' = g.cache
               /\ steps' = IF g.res.ok
                              /\ DOMAIN Unwrap(g.res.val).file_statuses # {}
                           THEN <<"get_status", "print">>
                           ELSE <<"get_status">>
          ELSE /\ cache' = cache
               /\ steps' = <<>>
    /\ event' = None
    /\ git_status' = None
    /\ outputs' = 0
    /\ mainpc' = "head"
    /\ UNCHANGED <<repo, last, invalidated, looked, concVars, watchVars, opts,
                   running, sender, shutdown, late,
                   trace, appVars>>

\* recv_timeout returns Err(Disconnected): break.
LoopRecvDisconnected ==
    /\ mainpc = "recv"
    /\ RecvTimeout(channel, sender) = "disconnected"
    /\ mainpc' = "stopped"
    /\ shutdown' = "disconnected"
    /\ UNCHANGED <<cacheVars, concVars, watchVars, opts, running, sender,
                   event, git_status, steps, outputs, late,
                   trace, appVars>>

\* monitor.invalidate_cache()
LoopInvalidate ==
    /\ mainpc = "invalidate"
    /\ cache' = InvalidateCache(cache, now)
    /\ steps' = Append(steps, "invalidate")
    /\ mainpc' = "resolve"
    /\ UNCHANGED <<now, repo, last, invalidated, looked, concVars, watchVars,
                   opts, running, sender, event, git_status, outputs, shutdown, late,
                   trace, appVars>>

\* monitor.get_file_status(path).ok().flatten()
LoopResolve ==
    /\ mainpc = "resolve"
    /\ LET g == GetFileStatus(cache, repo, now, now, Unwrap(Unwrap(event).path))
       IN /\ cache' = g.cache
          /\ git_status' = IF g.res.ok THEN Unwrap(g.res.val) ELSE None
          /\ steps' = Append(steps, IF g.fetched = 1 THEN "resolve_fetched"
                                    ELSE "resolve_cached")
    /\ mainpc' = "format"
    /\ UNCHANGED <<now, repo, last, invalidated, looked, concVars, watchVars,
                   opts, running, sender, event, outputs, shutdown, late,
                   trace, appVars>>

\* formatter.format_event(&event, git_status.as_ref())
LoopFormat ==
    /\ mainpc = "format"
    /\ outputs' = outputs + 1
    /\ trace' = TraceHanded(trace, Unwrap(event))
    /\ mainpc' = "head"
    /\ UNCHANGED <<cacheVars, concVars, watchVars, opts, running, sender,
                   event, git_status, steps, shutdown, late, appVars>>

\* The debouncer callback sends an event.
ProducerSend ==
    /\ sender
    /\ Len(channel) < LoopChanCap
    /\ TraceRoom(trace, 1)
    /\ \E e \in LoopEvents :
          /\ channel' = Append(channel, e)
          /\ trace' = TraceSent(trace, <<e>>)
    /\ UNCHANGED <<cacheVars, concVars, fs, gitignore, window, flushed, opts,
                   running, sender, mainpc, event, git_status, steps, outputs,
                   shutdown, late, appVars>>

\* The producer side of the channel is closed.
ProducerDrop ==
    /\ sender
    /\ sender' = FALSE
    /\ UNCHANGED <<cacheVars, concVars, watchVars, opts, running, mainpc,
                   event, git_status, steps, outputs, shutdown, late,
                   trace, appVars>>

\* The handler installed by ctrlc::set_handler runs.
SignalHandler ==
    /\ running
    /\ running' = FALSE
    /\ UNCHANGED <<cacheVars, concVars, watchVars, opts, sender, mainpc,
                   event, git_status, steps, outputs, shutdown, late,
                   trace, appVars>>

LoopNext ==
    \/ LoopStart
    \/ LoopHead
    \/ LoopRecvOk
    \/ LoopRecvTimeout
    \/ LoopRecvDisconnected
    \/ LoopInvalidate
    \/ LoopResolve
    \/ LoopFormat
    \/ ProducerSend
    \/ ProducerDrop
    \/ SignalHandler
    \/ RepoChange

SpecLoop == LoopInit /\ [][LoopNext]_vars

\* The steps of the main thread.  Each is enabled until it is taken, and the
\* thread is scheduled: the only wait is recv_timeout, which returns.
MainStep ==
    \/ LoopStart
    \/ LoopHead
    \/ LoopRecvOk
    \/ LoopRecvTimeout
    \/ LoopRecvDisconnected
    \/ LoopInvalidate
    \/ LoopResolve
    \/ LoopFormat

SpecLoopFair == SpecLoop /\ WF_vars(MainStep)

\* The iteration for the received event is complete.
Handled == IsSome(event) /\ mainpc \in {"head", "recv", "stopped"}

(* C6 as stated: with git integration enabled, every event received, Error  *)
(* events included, has the cache invalidated and then its status resolved  *)
(* before exactly one (event, status) pair is handed to the formatter.      *)
C6_AsStated ==
    /\ outputs <= 1
    /\ Handled => outputs = 1
    /\ (opts.git /\ IsSome(event) /\ outputs = 1) =>
          /\ Len(steps) = 2
          /\ steps[1] = "invalidate"
          /\ steps[2] \in {"resolve_fetched", "resolve_cached"}

(* C6, what the loop does: an event that carries a path has the cache      *)
(* invalidated and then its status resolved by a fresh fetch; an Error      *)
(* event has neither and is handed over with no status; every event is      *)
(* handed over exactly once.                                                *)
C6_InvalidateThenResolveIfPath ==
    /\ outputs <= 1
    /\ Handled => outputs = 1
    /\ mainpc = "resolve" => steps = <<"invalidate">>
    /\ (opts.git /\ IsSome(event) /\ outputs = 1) =>
          IF IsSome(Unwrap(event).path)
          THEN steps = <<"invalidate", "resolve_fetched">>
          ELSE steps = <<>> /\ git_status = None

\* An event for a.txt was handed over with its status after an invalidate
\* and a fresh fetch, although the initial status had filled the cache.
C6_Witness ==
    /\ opts.git
    /\ opts.format = "pretty"
    /\ now = 0
    /\ event = Some(Modified(Abs(FileA)))
    /\ steps = <<"invalidate", "resolve_fetched">>
    /\ IsSome(git_status)
    /\ outputs = 1
    /\ mainpc = "head"

(* C10: once the loop has observed the flag false at its head, or the       *)
(* channel disconnected, it receives, resolves and outputs nothing more,    *)
(* whatever is still queued in the channel.                                 *)
C10_ShutdownTerminal ==
    [][shutdown # "none" =>
          /\ mainpc' = "stopped"
          /\ shutdown' = shutdown
          /\ event' = event
          /\ git_status' = git_status
          /\ steps' = steps
          /\ outputs' = outputs
          /\ cache' = cache
          /\ Len(channel') >= Len(channel)]_vars

\* The loop ended on the flag with an event queued and one more arrived.
C10_Witness ==
    /\ shutdown = "cancelled"
    /\ mainpc = "stopped"
    /\ sender
    /\ Len(channel) = 2

(* C11: once the running flag has been cleared the loop reaches Shutdown,   *)
(* and it receives at most one event between the write and the exit.        *)
C11_CancelReachesShutdown ==
    /\ (~running) ~> (shutdown # "none")
    /\ [](late <= 1)

\* The flag was cleared while the loop was waiting in recv; it took one more
\* event, handled it, and stopped at the next loop head.
C11_Witness ==
    /\ ~running
    /\ late = 1
    /\ outputs = 1
    /\ shutdown = "cancelled"

\* The iteration that just ended was a receive timeout.
TimeoutStep == mainpc = "recv" /\ mainpc' = "head"

(* C12: a receive timeout never invalidates the cache; it calls get_status  *)
(* exactly when the format is summary and a GitMonitor exists; otherwise it *)
(* leaves the cache alone and outputs nothing.                              *)
C12_TimeoutFrame ==
    [][TimeoutStep =>
          /\ cache' \in {cache, GetStatus(cache, repo, now', now').cache}
          /\ "invalidate" \notin {steps'[i] : i \in 1..Len(steps')}
          /\ outputs' = 0
          /\ IF opts.format = "summary" /\ opts.git
             THEN steps'[1] = "get_status"
             ELSE steps' = <<>> /\ cache' = cache]_vars

\* A summary-mode tick read the status and printed the heartbeat; a tick in
\* another mode would have left steps empty.
C12_Witness ==
    /\ opts.format = "summary"
    /\ opts.git
    /\ steps = <<"get_status", "print">>
    /\ mainpc = "head"
    /\ now > 0

----------------------------------------------------------------------------
(* The watcher reports errors while the loop runs: the callback's Err arm   *)
(* (watcher.rs) feeding the event loop (main.rs).                           *)

\* The callback runs handle_events(Err(errors)) and sends on the channel.
\* flushed keeps the last failure.
ProducerError ==
    /\ sender
    /\ \E errors \in ErrorBatches :
          LET sent == HandleEvents(DebounceErr(errors), None,
                                   WatchRoot, <<>>)
          IN /\ Len(channel) + Len(sent) <= LoopChanCap
             /\ TraceRoom(trace, Len(sent))
             /\ channel' = channel \o sent
             /\ flushed' = [log |-> <<>>, errors |-> errors, sent |-> sent]
             /\ trace' = TraceSent(trace, sent)
    /\ UNCHANGED <<cacheVars, concVars, fs, gitignore, window, opts, running,
                   sender, mainpc, event, git_status, steps, outputs, shutdown,
                   late, appVars>>

\* A repository without a commit: repo.head() fails.
RepoUnborn == [RepoBase EXCEPT !.head = "unborn"]

ErrInit ==
    /\ now = 0
    /\ repo \in RepoStates \cup {RepoUnborn}
    /\ cache = NewCache(now)
    /\ HistIdle
    /\ ConcIdle
    /\ WatchIdle
    /\ opts \in [format : Formats, git : BOOLEAN]
    /\ running = TRUE
    /\ sender = TRUE
    /\ mainpc = "start"
    /\ event = None
    /\ git_status = None
    /\ steps = <<>>
    /\ outputs = 0
    /\ shutdown = "none"
    /\ late = 0
    /\ trace = NoTrace
    /\ AppIdle

ErrNext ==
    \/ MainStep
    \/ ProducerSend
    \/ ProducerError
    \/ ProducerDrop
    \/ SignalHandler
    \/ RepoChange

SpecErr == ErrInit /\ [][ErrNext]_vars

\* The watcher has reported a failure.
Failed == flushed.errors # <<>>

(* C13: a failure reported by the watcher is sent as one Error event per    *)
(* error, in order; it leaves the sender alive and the loop out of          *)
(* Shutdown (which only the cleared flag or a disconnect causes); events    *)
(* received after it are handed to the formatter once each.                 *)
C13_FailureDoesNotStop ==
    /\ [](Failed =>
            flushed.sent = [i \in 1..Len(flushed.errors) |->
                               ErrorEvent(flushed.errors[i])])
    /\ [][flushed' # flushed => sender' /\ shutdown' = shutdown]_vars
    /\ [][shutdown' # shutdown =>
             \/ ~running
             \/ (channel = <<>> /\ ~sender)]_vars
    /\ []((Failed /\ Handled) => outputs = 1)
    /\ [][(mainpc = "format" /\ Unwrap(event).type = "Error")
             => (mainpc' \in {"format", "head"} /\ shutdown' = "none")]_vars

\* Two errors were reported and received; the event for a.txt that came
\* after them has been handed over, and the loop is still running.
C13_Witness ==
    /\ Len(flushed.errors) = 2
    /\ Len(flushed.sent) = 2
    /\ channel = <<>>
    /\ event = Some(Modified(Abs(FileA)))
    /\ outputs = 1
    /\ late = 0
    /\ mainpc = "recv"
    /\ shutdown = "none"

\* The main thread leaves the resolve step.
ResolveStep == mainpc = "resolve" /\ mainpc' # "resolve"

\* The path of the event in hand.
EventPath == Unwrap(Unwrap(event).path)

(* C14: when fetch_status fails (no repository, unborn HEAD, failed status  *)
(* read) the event is handed to the formatter with no status and the loop   *)
(* goes on; a later event gets its status from a fresh snapshot as soon as  *)
(* fetch_status succeeds; Shutdown comes only from the flag or a            *)
(* disconnect.                                                              *)
C14_StatusFailureDegrades ==
    /\ [][(ResolveStep /\ ~FetchStatus(repo).ok) =>
             /\ mainpc' = "format"
             /\ git_status' = None
             /\ shutdown' = "none"]_vars
    /\ [][(ResolveStep /\ FetchStatus(repo).ok) =>
             /\ mainpc' = "format"
             /\ git_status' = LookupStatus(Unwrap(FetchStatus(repo).val),
                                           RepoRootOf(repo), EventPath)]_vars
    /\ [](Handled => outputs = 1)
    /\ [][(mainpc = "head" /\ mainpc' = "stopped") => ~running]_vars

\* The status read fails now although an earlier one succeeded and its
\* snapshot, which lists a.txt, is still stored: the event for a.txt was
\* handed over with no status and the loop is back at its head.
C14_Witness ==
    /\ opts.git
    /\ ~FetchStatus(repo).ok
    /\ IsSome(cache.info)
    /\ event = Some(Modified(Abs(FileA)))
    /\ steps = <<"invalidate", "resolve_fetched">>
    /\ git_status = None
    /\ outputs = 1
    /\ mainpc = "head"
    /\ shutdown = "none"

----------------------------------------------------------------------------
(* fetch_status as a function of the repository: get_status calls on        *)
(* repositories that differ in HEAD, upstream, and the flags of an entry.   *)

\* The flags of git2::Status the chain tests, and one it does not.
AllFlags ==
    {"conflicted", "index_new", "index_modified", "index_deleted",
     "index_renamed", "index_typechange", "wt_new", "wt_modified",
     "wt_deleted", "wt_renamed"}

\* Entries with a path that is not UTF-8: none, one, or two of which
\* either may be the conflicted one.
UnnamedEntries ==
    {<<>>, <<{"conflicted"}>>, <<{"wt_modified"}>>,
     <<{"conflicted"}, {"wt_modified"}>>, <<{"wt_modified"}, {"conflicted"}>>}

\* Largest commit-graph distance between HEAD and its upstream.
MaxDistance == 2

FetchRepos ==
    {[RepoBase EXCEPT !.entries = (FileA :> f)] : f \in SUBSET AllFlags}
    \cup {[RepoBase EXCEPT !.head = h, !.shorthand = sh, !.upstream = u,
                           !.graphOk = g, !.statusOk = st, !.ahead = 1] :
             h \in {"branch", "detached", "unborn"},
             sh \in {Some("main"), None},
             u \in {"missing", "direct", "symbolic"},
             g \in BOOLEAN, st \in BOOLEAN}
    \cup {[RepoBase EXCEPT !.upstream = u, !.ahead = a, !.behind = b] :
             u \in {"missing", "direct"},
             a \in 0..MaxDistance, b \in 0..MaxDistance}
    \cup {[RepoBase EXCEPT !.entries = (FileA :> f), !.unnamed = un] :
             f \in {{"wt_new"}, {"conflicted"}}, un \in UnnamedEntries}

FetchInit ==
    /\ now = 0
    /\ repo \in FetchRepos
    /\ cache = NewCache(now)
    /\ HistIdle
    /\ ConcIdle
    /\ WatchIdle
    /\ LoopIdle
    /\ AppIdle

FetchNext ==
    \/ DoGetStatus
    \/ DoInvalidate

SpecFetch == FetchInit /\ [][FetchNext]_vars

\* HEAD resolved and the per-path status read succeeds.
HeadAndStatusOk == repo.present /\ repo.head # "unborn" /\ repo.statusOk

(* C15 as stated: when the ahead/behind lookup fails but HEAD and the       *)
(* per-path status read succeed, get_status still yields a GitInfo.         *)
C15_AsStated ==
    (/\ last.call.some
     /\ last.call.fetched = 1
     /\ HeadAndStatusOk
     /\ ~GetAheadBehind(repo).ok)
    => last.call.res.ok

\* Precedence of the classes, highest first; Unknown is last.
ClassRank(class) ==
    CASE class = "Conflicted" -> 1
      [] class = "Staged" -> 2
      [] class = "Untracked" -> 3
      [] class = "Modified" -> 4
      [] class = "Deleted" -> 5
      [] class = "Renamed" -> 6
      [] OTHER -> 7

ClassOfFlag(f) ==
    CASE f = "conflicted" -> "Conflicted"
      [] f \in {"index_new", "index_modified", "index_deleted"} -> "Staged"
      [] f = "wt_new" -> "Untracked"
      [] f = "wt_modified" -> "Modified"
      [] f = "wt_deleted" -> "Deleted"
      [] f \in {"wt_renamed", "index_renamed"} -> "Renamed"
      [] OTHER -> "Unknown"

\* The class of the highest-precedence flag present.
ClassByPrecedence(flags) ==
    IF flags = {} THEN "Unknown"
    ELSE LET best == CHOOSE f \in flags :
                        \A g \in flags :
                            ClassRank(ClassOfFlag(f)) <= ClassRank(ClassOfFlag(g))
         IN ClassOfFlag(best)

(* C17: in every snapshot get_status returns, the status of each entry is   *)
(* the class of the highest-precedence flag among the entry's flags:        *)
(* conflicted > staged > untracked > modified > deleted > renamed >         *)
(* unknown.                                                                 *)
C17_ClassificationPrecedence ==
    (last.call.some /\ last.call.res.ok) =>
        \A p \in DOMAIN repo.entries :
            Unwrap(last.call.res.val).file_statuses[p]
                = ClassByPrecedence(repo.entries[p])

\* An entry that is both staged and modified in the working tree, and
\* renamed, was classified Staged.
C17_Witness ==
    /\ last.call.some
    /\ last.call.res.ok
    /\ repo.entries[FileA] = {"index_modified", "wt_modified", "wt_renamed"}
    /\ Unwrap(last.call.res.val).file_statuses[FileA] = "Staged"

----------------------------------------------------------------------------
(* Startup of main: FileWatcher::new and watcher.watch, each followed by ?, *)
(* then the event loop.                                                     *)

\* A line GitignoreBuilder::add_line rejects (an unclosed character class).
BadPattern == "["

Malformed(line) == line = BadPattern

\* builder.add(gitignore_path): the lines of the file it keeps.  A line it
\* rejects is reported in the returned Option<Error>, which load_gitignore
\* drops.
AddFile(file) ==
    LET wellFormed(l) == ~Malformed(l)
    IN IF IsSome(file) THEN Some(SelectSeq(Unwrap(file), wellFormed)) ELSE None

\* Mutant: a rejected line is skipped instead of failing the construction.
FileWatcherNew_SkipMalformed(use_gitignore, file, custom_ignores) ==
    LET wellFormed(l) == ~Malformed(l)
    IN Ok(NewGitignore(use_gitignore, AddFile(file),
                       SelectSeq(custom_ignores, wellFormed)))

\* FileWatcher::new: Err when builder.add_line(None, &pattern)? fails in
\* load_gitignore or build_custom_ignore, else the watcher's gitignore.
FileWatcherNew(use_gitignore, file, custom_ignores) ==
    IF \E i \in 1..Len(custom_ignores) : Malformed(custom_ignores[i])
    THEN Err
    ELSE Ok(NewGitignore(use_gitignore, AddFile(file), custom_ignores))

StartupIgnores == CustomIgnores \cup {<<BadPattern>>, <<"*.tmp", BadPattern>>}
StartupFiles == {None, Some(<<"*.txt", BadPattern>>)}

\* opts also holds the arguments of the watcher, the lines of the root's
\* .gitignore if there is one, and whether the root can be watched.  No watcher, hence no sender, exists before startup.
StartupInit ==
    /\ now = 0
    /\ repo = RepoBase
    /\ cache = NewCache(now)
    /\ HistIdle
    /\ ConcIdle
    /\ WatchIdle
    /\ opts \in [format : Formats, git : {TRUE}, use_gitignore : BOOLEAN,
                 file : StartupFiles, custom : StartupIgnores,
                 watchable : BOOLEAN]
    /\ running = TRUE
    /\ sender = FALSE
    /\ mainpc = "init"
    /\ event = None
    /\ git_status = None
    /\ steps = <<>>
    /\ outputs = 0
    /\ shutdown = "none"
    /\ late = 0
    /\ trace = NoTrace
    /\ AppIdle

\* FileWatcher::new(..)? and watcher.watch(..)?: main returns the error, or
\* goes on with the watcher running.
Startup ==
    /\ mainpc = "init"
    /\ LET w == FileWatcherNew(opts.use_gitignore, opts.file, opts.custom)
       IN IF w.ok /\ opts.watchable
          THEN /\ gitignore' = Unwrap(w.val)
               /\ sender' = TRUE
               /\ mainpc' = "start"
          ELSE /\ gitignore' = gitignore
               /\ sender' = FALSE
               /\ mainpc' = "failed"
    /\ UNCHANGED <<cacheVars, concVars, fs, window, channel, flushed, opts,
                   running, event, git_status, steps, outputs, shutdown, late,
                   trace, appVars>>

StartupNext ==
    \/ Startup
    \/ MainStep
    \/ ProducerSend
    \/ ProducerDrop
    \/ SignalHandler

SpecStartup == StartupInit /\ [][StartupNext]_vars

\* The .gitignore that is read has a malformed line.
BadGitignoreFile ==
    /\ opts.use_gitignore
    /\ IsSome(opts.file)
    /\ \E i \in 1..Len(Unwrap(opts.file)) : Unwrap(opts.file)[i] = BadPattern

\* A caller-supplied pattern is malformed, or the root cannot be watched.
ConfigError ==
    \/ \E i \in 1..Len(opts.custom) : opts.custom[i] = BadPattern
    \/ ~opts.watchable

\* main has not gone past the construction of the watcher.
NeverStarted ==
    /\ mainpc \in {"init", "failed"}
    /\ channel = <<>>
    /\ event = None
    /\ outputs = 0
    /\ steps = <<>>
    /\ cache = NewCache(0)

(* C16 as stated: with a malformed ignore pattern, from any source of the   *)
(* matcher, or an unwatchable root, main returns the error before the loop  *)
(* and no event is received or output.                                      *)
C16_AsStated == (ConfigError \/ BadGitignoreFile) => NeverStarted

(* C16, what the code does: a malformed caller-supplied pattern or an       *)
(* unwatchable root makes main return before the loop, for good; a          *)
(* malformed line of .gitignore does not.                                   *)
C16_ConfigErrorIsFatal ==
    /\ [](ConfigError => NeverStarted)
    /\ [][mainpc = "failed" => mainpc' = "failed"]_vars

\* A malformed caller-supplied pattern, with a watchable root, made main
\* return the error.
C16_Witness ==
    /\ mainpc = "failed"
    /\ opts.watchable
    /\ opts.custom = <<"*.tmp", BadPattern>>
    /\ ~sender

----------------------------------------------------------------------------
(* convert_event and the compiled rule set as functions of their inputs:    *)
(* the callback is handed one debounced event at a time, of every kind and  *)
(* with zero, one or two paths (a rename carries both names).               *)

RawKinds == {"create", "modify", "remove", "any", "access", "other"}

MaxPaths == 2

\* A file beside the watch root, as the other name of a rename across it.
OutsideTmp == <<"/", "other", "y.tmp">>

ConvertPaths == WatchPaths \cup {OutsideTmp}

PathLists == UNION {[1..n -> ConvertPaths] : n \in 0..MaxPaths}

ConvertFiles == GitignoreFiles \cup {Some(<<"!*.tmp">>)}

\* opts holds the arguments the watcher was built from.
ConvertInit ==
    /\ now = 0
    /\ repo = RepoBase
    /\ cache = NewCache(now)
    /\ HistIdle
    /\ ConcIdle
    /\ opts \in [format : {"pretty"}, git : {FALSE}, use_gitignore : BOOLEAN,
                 file : ConvertFiles, custom : CustomIgnores,
                 watchable : {TRUE}]
    /\ running = TRUE
    /\ sender = TRUE
    /\ mainpc = "head"
    /\ event = None
    /\ git_status = None
    /\ steps = <<>>
    /\ outputs = 0
    /\ shutdown = "none"
    /\ late = 0
    /\ trace = NoTrace
    /\ AppIdle
    /\ fs \in {t \in [WatchPaths -> {"absent", "file", "dir"}] :
                  \A p \in WatchPaths : t[p] \in KindsOf(p) \cup {"absent"}}
    /\ gitignore = Unwrap(FileWatcherNew(opts.use_gitignore, opts.file,
                                         opts.custom).val)
    /\ window = <<>>
    /\ channel = <<>>
    /\ flushed = NoFlush

\* The callback runs handle_events(Ok([ev])); the consumer keeps up.
ConvertOne ==
    \E k \in RawKinds, ps \in PathLists :
        LET ev == [kind |-> k, paths |-> ps]
            sent == HandleEvents(DebounceOk(<<ev>>), gitignore, WatchRoot, fs)
        IN /\ flushed' = [log |-> <<ev>>, errors |-> <<>>, sent |-> sent]
           /\ channel' = sent
           /\ UNCHANGED <<fs, gitignore, window, cacheVars, concVars, loopVars, appVars>>

\* The callback runs handle_events(Err(errors)).
ConvertErrors ==
    \E errors \in ErrorBatches :
        LET sent == HandleEvents(DebounceErr(errors), gitignore, WatchRoot, fs)
        IN /\ flushed' = [log |-> <<>>, errors |-> errors, sent |-> sent]
           /\ channel' = sent
           /\ UNCHANGED <<fs, gitignore, window, cacheVars, concVars, loopVars, appVars>>

ConvertNext ==
    \/ ConvertOne
    \/ ConvertErrors

SpecConvert == ConvertInit /\ [][ConvertNext]_vars

\* The event the callback was last handed.
Given == flushed.log[1]

\* Path p is matched by the rules, as convert_event asks.
IgnoredNow(p) == RulesMatch(p, IsDir(fs, p))

(* C18: an event the filter lets through is translated by kind, Create to   *)
(* Created, Modify to Modified, Remove to Deleted, Any to Modified, each    *)
(* with the first path; other kinds and events without paths send nothing.  *)
C18_KindTranslation ==
    (/\ flushed.log # <<>>
     /\ \A i \in 1..Len(Given.paths) : ~IgnoredNow(Given.paths[i]))
    => flushed.sent =
          IF Given.paths = <<>> THEN <<>>
          ELSE CASE Given.kind = "create" -> <<Created(Given.paths[1])>>
                 [] Given.kind = "modify" -> <<Modified(Given.paths[1])>>
                 [] Given.kind = "remove" -> <<Deleted(Given.paths[1])>>
                 [] Given.kind = "any" -> <<Modified(Given.paths[1])>>
                 [] OTHER -> <<>>

\* An imprecise notification naming x.txt and then target was sent as
\* Modified(x.txt).
C18_Witness ==
    /\ flushed.log = <<[kind |-> "any", paths |-> <<TxtFile, TargetDir>>]>>
    /\ flushed.sent = <<Modified(TxtFile)>>
    /\ channel = <<Modified(TxtFile)>>

(* C19 as stated: an event of a mapped kind that references at least one    *)
(* path the rules do not match is translated and sent.                      *)
C19_AsStated ==
    (/\ flushed.log # <<>>
     /\ Given.kind \in {"create", "modify", "remove", "any"}
     /\ \E i \in 1..Len(Given.paths) : ~IgnoredNow(Given.paths[i]))
    => flushed.sent # <<>>

\* Relative form of a watched path.
Rel(p) == Unwrap(StripPrefix(p, WatchRoot).val)

\* The verdict of the sources taken by precedence: the caller's patterns,
\* then the built-in list, then .gitignore.
VerdictBySource(p, dir) ==
    LET c == Matched(AddLines(opts.custom), Rel(p), dir)
        b == Matched(AddLines(BuiltinLines), Rel(p), dir)
        f == IF IsSome(opts.file)
             THEN Matched(AddLines(Unwrap(opts.file)), Rel(p), dir)
             ELSE "none"
    IN IF c # "none" THEN c ELSE IF b # "none" THEN b ELSE f

(* C20: the rule set built with .gitignore handling on decides every path   *)
(* as its highest-precedence source with a matching pattern does: caller    *)
(* patterns over the built-in list, the built-in list over .gitignore.      *)
C20_SourcePrecedence ==
    opts.use_gitignore =>
        \A p \in WatchPaths, dir \in BOOLEAN :
            Matched(Unwrap(gitignore), Rel(p), dir) = VerdictBySource(p, dir)

\* The caller's !*.tmp re-included x.tmp, which the built-in list ignores,
\* and its creation was sent.
C20_Witness ==
    /\ opts.use_gitignore
    /\ opts.custom = <<"!*.tmp">>
    /\ Matched(AddLines(BuiltinLines), Rel(TmpFile), FALSE) = "ignore"
    /\ flushed.log = <<[kind |-> "create", paths |-> <<TmpFile>>]>>
    /\ flushed.sent = <<Created(TmpFile)>>

\* The built-in list alone matches p, and no caller pattern re-includes it.
BuiltinIgnores(p) ==
    /\ StripPrefix(p, WatchRoot).ok
    /\ Matched(AddLines(BuiltinLines), Rel(p), IsDir(fs, p)) = "ignore"
    /\ Matched(AddLines(opts.custom), Rel(p), IsDir(fs, p)) # "whitelist"

(* C21 as stated: whatever the .gitignore flag and the caller's patterns,   *)
(* an event whose only path is matched by a built-in pattern, and is not    *)
(* re-included by a caller pattern, is never delivered.                     *)
C21_AsStated ==
    (/\ flushed.log # <<>>
     /\ Len(Given.paths) = 1
     /\ BuiltinIgnores(Given.paths[1]))
    => flushed.sent = <<>>

\* What the constructor does: the built-in list is part of the rule set
\* only when .gitignore handling is on.
C21_BuiltinsOnlyWithGitignore ==
    (/\ flushed.log # <<>>
     /\ opts.use_gitignore
     /\ Len(Given.paths) = 1
     /\ BuiltinIgnores(Given.paths[1]))
    => flushed.sent = <<>>

\* With .gitignore handling off and no caller pattern the creation of x.tmp
\* was delivered.
C21_Witness ==
    /\ ~opts.use_gitignore
    /\ opts.custom = <<>>
    /\ gitignore = None
    /\ flushed.log = <<[kind |-> "create", paths |-> <<TmpFile>>]>>
    /\ flushed.sent = <<Created(TmpFile)>>

----------------------------------------------------------------------------
(* Claims about the fields of a computed GitInfo (SpecFetch).               *)

\* The snapshot the last get_status call returned.
LastInfo == Unwrap(last.call.res.val)

(* C22: in every GitInfo get_status returns, ahead and behind are both 0    *)
(* when refs/remotes/origin/<branch> does not exist for the current branch  *)
(* (or HEAD is on no branch), and are the commit-graph distances between    *)
(* HEAD and that reference, in each direction, when it exists.              *)
C22_AheadBehind ==
    (last.call.some /\ last.call.res.ok) =>
        /\ (repo.head # "branch" \/ repo.upstream = "missing")
              => (LastInfo.ahead = 0 /\ LastInfo.behind = 0)
        /\ (repo.head = "branch" /\ repo.upstream # "missing")
              => (LastInfo.ahead = repo.ahead /\ LastInfo.behind = repo.behind)

\* A branch one commit ahead of and two behind origin/main was reported so,
\* by a call that ran the computation.
C22_Witness ==
    /\ last.call.some
    /\ last.call.res.ok
    /\ last.call.fetched = 1
    /\ repo.head = "branch"
    /\ repo.upstream = "direct"
    /\ repo.ahead = 1
    /\ repo.behind = 2
    /\ LastInfo.ahead = 1
    /\ LastInfo.behind = 2

(* C23: the branch of every GitInfo get_status returns is HEAD's symbolic   *)
(* branch name when HEAD points at a branch, and the literal "detached"     *)
(* when HEAD does not point at a branch.                                    *)
C23_BranchName ==
    (last.call.some /\ last.call.res.ok) =>
        /\ repo.head = "branch"
              => (IsSome(repo.shorthand)
                  /\ LastInfo.branch = Unwrap(repo.shorthand))
        /\ repo.head # "branch" => LastInfo.branch = "detached"

\* A computation on a detached HEAD, whose short name is still available,
\* reported the branch "detached".
C23_Witness ==
    /\ last.call.some
    /\ last.call.res.ok
    /\ last.call.fetched = 1
    /\ repo.head = "detached"
    /\ IsSome(repo.shorthand)
    /\ LastInfo.branch = "detached"

\* The scenario: a.txt untracked, b.txt tracked and modified in the working
\* tree, HEAD on a branch without refs/remotes/origin/<branch>.
ScenarioRepo ==
    /\ repo.present
    /\ repo.head = "branch"
    /\ repo.upstream = "missing"
    /\ repo.entries = (FileA :> {"wt_new"}) @@ (FileB :> {"wt_modified"})

(* C24: for a repository with an untracked a.txt, a modified tracked b.txt  *)
(* and no upstream reference, every GitInfo get_status returns has          *)
(* file_statuses exactly {a.txt: Untracked, b.txt: Modified}, ahead 0,      *)
(* behind 0 and has_conflicts false.                                        *)
C24_Scenario ==
    (last.call.some /\ last.call.res.ok /\ ScenarioRepo) =>
        /\ LastInfo.file_statuses =
              (FileA :> "Untracked") @@ (FileB :> "Modified")
        /\ LastInfo.ahead = 0
        /\ LastInfo.behind = 0
        /\ LastInfo.has_conflicts = FALSE

\* The computation ran on the scenario's repository and returned the
\* snapshot of branch main.
C24_Witness ==
    /\ last.call.some
    /\ last.call.fetched = 1
    /\ ScenarioRepo
    /\ last.call.res =
          Ok([branch |-> "main", ahead |-> 0, behind |-> 0,
              has_conflicts |-> FALSE,
              file_statuses |->
                  (FileA :> "Untracked") @@ (FileB :> "Modified")])

----------------------------------------------------------------------------
(* Claims about a monitor built where no repository is discoverable         *)
(* (Spec).                                                                  *)

(* C25: when no repository was discoverable from the root, every            *)
(* get_status call runs the computation, which fails: the call returns an   *)
(* error, never a GitInfo, and the cache stays empty.                       *)
C25_NoRepositoryAlwaysFails ==
    ~repo.present =>
        /\ IsNone(cache.info)
        /\ last.call.some =>
              (/\ ~last.call.res.ok
               /\ last.call.fetched = 1
               /\ last.call.after[1] = None)
        /\ last.pred.some => ~last.pred.res.ok

\* Two calls half a second apart, both failed, the cache still empty.
C25_Witness ==
    /\ ~repo.present
    /\ last.pred.some
    /\ last.call.some
    /\ last.call.t >= last.pred.t + CacheDurationMs
    /\ ~last.pred.res.ok
    /\ ~last.call.res.ok
    /\ IsNone(cache.info)

----------------------------------------------------------------------------
(* Claims about the variants of the events sent (SpecConvert).              *)

\* The events of the given type among those the callback last sent.
SentOfType(type) ==
    LET is(e) == e.type = type IN SelectSeq(flushed.sent, is)

(* C26: Error events never carry a path: path() of every Error event on     *)
(* the channel is none, and a run of the callback on raw events, with or    *)
(* without paths, sends no Error event; Error events come only from the     *)
(* errors the callback is handed.                                           *)
C26_ErrorHasNoPath ==
    /\ \A i \in 1..Len(channel) :
          channel[i].type = "Error" => PathOf(channel[i]) = None
    /\ flushed.log # <<>> => SentOfType("Error") = <<>>
    /\ SentOfType("Error") # <<>> =>
          (/\ flushed.errors # <<>>
           /\ \A i \in 1..Len(flushed.sent) : PathOf(flushed.sent[i]) = None)

\* Two errors were handed to the callback and are on the channel as Error
\* events without a path.
C26_Witness ==
    /\ flushed.errors = <<"watch error", "io error">>
    /\ Len(channel) = 2
    /\ channel[1].type = "Error"
    /\ channel[2].type = "Error"
    /\ PathOf(channel[1]) = None
    /\ PathOf(channel[2]) = None

\* The variants the translator produces.
ProducedTypes == {"Created", "Modified", "Deleted", "Error"}

(* C27: no Renamed event is ever sent on the channel: whatever raw events   *)
(* and errors the callback is handed, every event it sends is Created,      *)
(* Modified, Deleted or Error.                                              *)
C27_NoRenamed ==
    /\ \A i \in 1..Len(channel) : channel[i].type \in ProducedTypes
    /\ \A i \in 1..Len(flushed.sent) : flushed.sent[i].type \in ProducedTypes

\* A rename notification that names x.txt and then x.tmp, with no rule set,
\* was sent as Modified of the first name.
C27_Witness ==
    /\ gitignore = None
    /\ flushed.log = <<[kind |-> "modify", paths |-> <<TxtFile, TmpFile>>]>>
    /\ flushed.sent = <<Modified(TxtFile)>>
    /\ channel = <<Modified(TxtFile)>>

----------------------------------------------------------------------------
(* The snapshots callers hold while the working tree changes under the      *)
(* monitor (specification SpecSnapshot): the two threads of SpecConc, and   *)
(* a repository whose set of entries changes between computations.  ret[t]  *)
(* is the value get_status last returned to thread t, which the caller      *)
(* owns.                                                                    *)

SnapshotEntries ==
    {(FileA :> {"wt_new"}) @@ (FileB :> {"wt_modified"}),
     (FileB :> {"index_modified"}),
     (FileC :> {"wt_new"})}

SnapshotRepos == {[RepoBase EXCEPT !.entries = e] : e \in SnapshotEntries}

\* Files are edited, staged, committed or added.
RepoEdit ==
    /\ repo' \in SnapshotRepos \ {repo}
    /\ UNCHANGED <<now, cache, last, invalidated, looked, concVars,
                   watchVars, loopVars, appVars>>

SnapshotInit ==
    /\ now = 0
    /\ repo \in SnapshotRepos
    /\ cache = NewCache(now)
    /\ HistIdle
    /\ ConcIdle
    /\ WatchIdle
    /\ LoopIdle
    /\ AppIdle

SnapshotNext ==
    \/ \E t \in Threads : GsCall(t)
    \/ \E t \in Threads : GsLock(t)
    \/ \E t \in Threads : GsCheck(t)
    \/ \E t \in Threads : GsFetch(t)
    \/ \E t \in Threads : GsStoreInfo(t)
    \/ \E t \in Threads : GsStoreTime(t)
    \/ \E t \in Threads : InvCall(t)
    \/ \E t \in Threads : InvLock(t)
    \/ \E t \in Threads : InvStore(t)
    \/ ConcTick
    \/ RepoEdit

SpecSnapshot == SnapshotInit /\ [][SnapshotNext]_vars

\* Thread t returns from get_status in this step.
Returns(t) == pc[t] \in {"gs_check", "gs_fetch", "gs_store_time"} /\ pc'[t] = "idle"

\* Thread t stores the snapshot it computed in this step.
Stores(t) == pc[t] = "gs_store_info" /\ pc'[t] = "gs_store_time"

(* C28: a GitInfo is replaced wholesale, never mutated in place: the        *)
(* snapshot a caller was returned changes only when that caller returns     *)
(* from a call of its own, not when another call recomputes or invalidates; *)
(* and each write-back stores exactly the result of the new computation,    *)
(* which is also what the call returns, with no entry of the previous       *)
(* snapshot carried over.                                                   *)
C28_ReplacedWholesale ==
    [][/\ \A t \in Threads : ret'[t] # ret[t] => Returns(t)
       /\ \A t \in Threads :
             Stores(t) => (cache'.info = tmp[t]
                           /\ Unwrap(cache'.info) \in computed)
       /\ \A t \in Threads :
             (pc[t] = "gs_store_time" /\ Returns(t))
                 => (ret'[t] = Some(Ok(Unwrap(cache.info)))
                     /\ cache'.info = cache.info)]_vars

\* One caller still holds the snapshot with a.txt and b.txt while, after an
\* invalidate, the other caller's recomputation has replaced the cached
\* snapshot by one whose only entry is c.txt.
C28_Witness ==
    \E t, u \in Threads :
        /\ t # u
        /\ IsSome(ret[t]) /\ Unwrap(ret[t]).ok
        /\ DOMAIN Unwrap(Unwrap(ret[t]).val).file_statuses = {FileA, FileB}
        /\ IsSome(ret[u]) /\ Unwrap(ret[u]).ok
        /\ Some(Unwrap(Unwrap(ret[u]).val)) = cache.info
        /\ DOMAIN Unwrap(cache.info).file_statuses = {FileC}
        /\ lock = "free"

----------------------------------------------------------------------------
(* Claims about the extent of the critical section (SpecConc).              *)

\* Positions at which a thread holds the MutexGuard.
InCritical ==
    {"gs_check", "gs_fetch", "gs_store_info", "gs_store_time", "inv_store"}

\* At most one thread is inside get_status or invalidate_cache past
\* lock(), and so at most one recomputation is in progress.
OneInCritical ==
    /\ \A t, u \in Threads :
          (t # u /\ pc[t] \in InCritical) => pc[u] \notin InCritical
    /\ Cardinality({t \in Threads : pc[t] \in Recomputing}) <= 1

\* While thread t recomputes, a step that changes the cache is t's own.
OnlyRecomputerWrites ==
    \A t \in Threads :
        (pc[t] \in Recomputing /\ cache' # cache) => pc'[t] # pc[t]

\* Thread u runs its freshness test in this step.
Checks(u) == pc[u] = "gs_check" /\ pc'[u] # "gs_check"

\* The test passes: u returns the stored snapshot and computes nothing.
ServedFromCache(u) ==
    /\ pc'[u] = "idle"
    /\ IsSome(cache.info)
    /\ ret'[u] = Some(Ok(Unwrap(cache.info)))
    /\ computed' = computed
    /\ cache' = cache

----------------------------------------------------------------------------
(* Claims about the age of the status attached to an event (SpecLoop).      *)
(* steps is emptied when an event is received, so what it lists was done    *)
(* after the receive.                                                       *)

\* What a computation run now yields for the path of the event in hand.
StatusComputedNow ==
    IF FetchStatus(repo).ok
    THEN LookupStatus(Unwrap(FetchStatus(repo).val), RepoRootOf(repo), EventPath)
    ELSE None

(* C30: the status attached to an event that has a path is never taken      *)
(* from a snapshot computed before the event was received: the resolve      *)
(* step always runs fetch_status, after the invalidate of the same          *)
(* iteration, and the status is what that computation yields for the path,  *)
(* or none when it fails or has no entry for the path.                      *)
C30_StatusComputedAfterReceive ==
    /\ [](\A i \in 1..Len(steps) : steps[i] # "resolve_cached")
    /\ []((mainpc = "format" /\ IsSome(git_status))
             => steps = <<"invalidate", "resolve_fetched">>)
    /\ [][ResolveStep =>
             /\ steps' = <<"invalidate", "resolve_fetched">>
             /\ git_status' = StatusComputedNow
             /\ FetchStatus(repo).ok =>
                   (cache'.info = FetchStatus(repo).val
                    /\ cache'.last_update = now)]_vars

\* b.txt was staged; the event about it carries Staged, from a snapshot
\* computed in this iteration and stored at the current instant.
C30_Witness ==
    /\ opts.git
    /\ repo = RepoStaged
    /\ event = Some(Deleted(Abs(FileB)))
    /\ steps = <<"invalidate", "resolve_fetched">>
    /\ git_status = Some("Staged")
    /\ cache.last_update = now
    /\ now > 0
    /\ mainpc = "format"

----------------------------------------------------------------------------
(* Claims about failed computations and about invalidate_cache (Spec).      *)

\* A get_status call completes in this step.
CallStep == last' # last

(* C31: a failed recomputation leaves the cache unchanged: when             *)
(* fetch_status fails inside get_status, the stored snapshot and            *)
(* last_update keep their values and the call returns the error; and the    *)
(* get_status call that follows a failed one runs fetch_status again, it    *)
(* never returns the stale snapshot.                                        *)
C31_FailedFetchKeepsCache ==
    /\ [][(CallStep /\ last'.call.fetched = 1 /\ ~FetchStatus(repo).ok)
             => (cache' = cache /\ last'.call.res = Err)]_vars
    /\ []((/\ last.pred.some
           /\ last.call.some
           /\ last.pred.fetched = 1
           /\ ~last.pred.res.ok)
             => (/\ last.call.fetched = 1
                 /\ last.call.lu = last.pred.lu \/ last.call.afterInv
                 /\ last.call.hadInfo = last.pred.hadInfo))

\* Two calls in a row failed on a stored, expired snapshot, with no
\* invalidate in between: both ran fetch_status and the snapshot and its
\* timestamp are what they were.
C31_Witness ==
    /\ last.pred.some
    /\ last.call.some
    /\ last.pred.hadInfo
    /\ last.pred.fetched = 1
    /\ ~last.pred.res.ok
    /\ ~last.call.afterInv
    /\ last.call.fetched = 1
    /\ ~last.call.res.ok
    /\ IsSome(cache.info)
    /\ cache.last_update = last.pred.lu

\* invalidate_cache runs in this step.
InvalidateStep == invalidated' /\ now' = now /\ repo' = repo /\ last' = last

\* What a later get_status call observes: its result, whether it computed,
\* and the snapshot it leaves.
Observed(c, t) ==
    LET g == GetStatus(c, repo, t, t)
    IN <<g.res, g.fetched, g.cache.info, CacheValid(g.cache, t + TickMs)>>

(* C32: invalidate_cache changes only last_update: the stored snapshot,     *)
(* present or absent, and the ttl are left as they were; and invalidating   *)
(* twice in a row has the same effect on a later get_status call as         *)
(* invalidating once.                                                       *)
C32_InvalidateFrame ==
    /\ [][InvalidateStep =>
             /\ cache'.info = cache.info
             /\ cache'.cache_duration = cache.cache_duration
             /\ cache'.last_update = now - InvalidateAgeMs]_vars
    /\ [](\A d1, d2 \in {0, TickMs, CacheDurationMs} :
             LET once == InvalidateCache(cache, now)
                 twice == InvalidateCache(once, now + d1)
             IN Observed(once, now + d1 + d2) = Observed(twice, now + d1 + d2))

\* A stored snapshot, computed a tick ago and still within its ttl, has
\* been invalidated: the snapshot is there, the timestamp is aged.
C32_Witness ==
    /\ invalidated
    /\ last.call.some
    /\ last.call.res.ok
    /\ last.call.ret + TickMs = now
    /\ cache.info = last.call.res.val
    /\ cache.last_update = now - InvalidateAgeMs
    /\ cache.cache_duration = CacheDurationMs

----------------------------------------------------------------------------
(* The channel between the callback and the main loop, with a record of     *)
(* what was sent and what was handed to format_event (specification         *)
(* SpecFifo; SpecFifoFair adds that the main thread keeps running).         *)

\* Batches the debouncer hands to the callback.
FifoBatches ==
    {<<Raw("create", TxtFile, FALSE), Raw("modify", Abs(FileA), FALSE)>>,
     <<Raw("modify", TmpFile, FALSE), Raw("remove", TxtFile, FALSE)>>,
     <<Raw("remove", Abs(FileB), FALSE)>>}

FifoInit ==
    /\ now = 0
    /\ repo = RepoBase
    /\ cache = NewCache(now)
    /\ HistIdle
    /\ ConcIdle
    /\ fs = <<>>
    /\ gitignore \in {None, LoadGitignore(None, <<>>)}
    /\ window = <<>>
    /\ channel = <<>>
    /\ flushed = NoFlush
    /\ opts \in [format : {"pretty"}, git : BOOLEAN]
    /\ running = TRUE
    /\ sender = TRUE
    /\ mainpc = "start"
    /\ event = None
    /\ git_status = None
    /\ steps = <<>>
    /\ outputs = 0
    /\ shutdown = "none"
    /\ late = 0
    /\ trace = [on |-> TRUE, sent |-> <<>>, handed |-> <<>>]
    /\ AppIdle

\* The callback runs handle_events(Ok(batch)).
ProducerBatch ==
    /\ sender
    /\ \E batch \in FifoBatches :
          LET sent == HandleEvents(DebounceOk(batch), gitignore, WatchRoot, fs)
          IN /\ Len(channel) + Len(sent) <= LoopChanCap
             /\ TraceRoom(trace, Len(sent))
             /\ channel' = channel \o sent
             /\ flushed' = [log |-> batch, errors |-> <<>>, sent |-> sent]
             /\ trace' = TraceSent(trace, sent)
    /\ UNCHANGED <<cacheVars, concVars, fs, gitignore, window, opts, running,
                   sender, mainpc, event, git_status, steps, outputs, shutdown,
                   late, appVars>>

FifoNext ==
    \/ MainStep
    \/ ProducerBatch
    \/ ProducerError
    \/ ProducerDrop
    \/ SignalHandler

SpecFifo == FifoInit /\ [][FifoNext]_vars

SpecFifoFair == SpecFifo /\ WF_vars(MainStep)

\* The event the loop has received and not yet handed to format_event.
InHand ==
    IF mainpc \in {"invalidate", "resolve", "format"}
    THEN <<Unwrap(event)>> ELSE <<>>

\* Position in the last batch of the raw event that names path p first.
BatchPos(p) ==
    CHOOSE i \in 1..Len(flushed.log) : flushed.log[i].paths[1] = p

(* C33: events cross from the callback to the main loop in FIFO order       *)
(* without loss or duplication: the events handed to the output, the one    *)
(* in hand and those still queued are, in this order, exactly the events    *)
(* sent; the events of one batch are sent in batch order; and as long as    *)
(* the loop does not shut down, every event sent is handed over.            *)
C33_FifoNoLossNoDup ==
    /\ [](trace.handed \o InHand \o channel = trace.sent)
    /\ [](flushed.log # <<>> =>
             \A i, j \in 1..Len(flushed.sent) :
                 i < j => BatchPos(Unwrap(flushed.sent[i].path))
                             < BatchPos(Unwrap(flushed.sent[j].path)))
    /\ \A n \in 1..MaxSent :
          (Len(trace.sent) >= n)
              ~> (Len(trace.handed) >= n \/ shutdown # "none")

\* A batch of two, then an error, were sent; all three have been handed
\* over in that order and the loop is still running.
C33_Witness ==
    /\ trace.sent = <<Created(TxtFile), Modified(Abs(FileA)),
                      ErrorEvent("watch error")>>
    /\ trace.handed = trace.sent
    /\ channel = <<>>
    /\ shutdown = "none"
    /\ running

----------------------------------------------------------------------------
(* The filter of convert_event over events with paths on both sides of the  *)
(* watch root (SpecConvert).                                                *)

\* Path p lies under the watch root.
UnderRoot(p) == StripPrefix(p, WatchRoot).ok

\* The kinds convert_event has a variant for.
Translated == {"create", "modify", "remove", "any"}

----------------------------------------------------------------------------
(* Claims about has_conflicts and about a detached HEAD (SpecFetch).        *)

(* C34 as stated: in every GitInfo get_status returns, has_conflicts is     *)
(* true if and only if at least one entry of file_statuses is classified    *)
(* Conflicted.                                                              *)
C34_AsStated ==
    (last.call.some /\ last.call.res.ok) =>
        (LastInfo.has_conflicts
            <=> \E p \in DOMAIN LastInfo.file_statuses :
                   LastInfo.file_statuses[p] = "Conflicted")

\* What the loop guarantees: a Conflicted entry in the map implies the
\* flag, and the flag tells that some status entry was conflicted.
C34_FlagFollowsStatusEntries ==
    (last.call.some /\ last.call.res.ok) =>
        /\ (\E p \in DOMAIN LastInfo.file_statuses :
               LastInfo.file_statuses[p] = "Conflicted")
              => LastInfo.has_conflicts
        /\ LastInfo.has_conflicts <=> HasConflicts(repo)

\* Two entries without a UTF-8 path, the first conflicted, the second
\* modified: the flag is set and the one key they share holds Modified.
C34_Witness ==
    /\ last.call.some
    /\ last.call.res.ok
    /\ repo.unnamed = <<{"conflicted"}, {"wt_modified"}>>
    /\ repo.entries = (FileA :> {"wt_new"})
    /\ LastInfo.has_conflicts
    /\ LastInfo.file_statuses = (NoPath :> "Modified") @@ (FileA :> "Untracked")

(* C36: when HEAD is detached, ahead and behind are both 0 and nothing of   *)
(* the upstream lookup is done: whatever refs/remotes/origin/<name> is      *)
(* (missing, direct, symbolic) and whether or not the commit graph can be   *)
(* walked, get_ahead_behind gives (0, 0), so get_status fails only when     *)
(* the per-path status read fails.                                          *)
C36_DetachedIsZero ==
    (last.call.some /\ repo.head = "detached") =>
        /\ GetAheadBehind(repo) = Ok(<<0, 0>>)
        /\ last.call.res.ok <=> repo.statusOk
        /\ last.call.res.ok => (LastInfo.ahead = 0 /\ LastInfo.behind = 0)

\* HEAD is detached, origin has a symbolic reference of HEAD's short name,
\* HEAD is one commit ahead of it, and the returned snapshot says 0 and 0.
C36_Witness ==
    /\ last.call.some
    /\ last.call.res.ok
    /\ repo.head = "detached"
    /\ repo.shorthand = Some("main")
    /\ repo.upstream = "symbolic"
    /\ repo.ahead = 1
    /\ LastInfo.ahead = 0
    /\ LastInfo.behind = 0

----------------------------------------------------------------------------
(* wezterm-fs-explorer.  A file name is a sequence of characters and a path *)
(* a sequence of names from the root; disk maps every path that exists to   *)
(* "file" or "dir".  The root <<>> always exists and is a directory.        *)

\* The bytes of the characters used, for String::cmp.
CharRank(c) ==
    CASE c = "." -> 46
      [] c = "/" -> 47
      [] c = "a" -> 97
      [] c = "b" -> 98
      [] c = "d" -> 100
      [] c = "w" -> 119
      [] c = "z" -> 122

\* a.name.cmp(&b.name) = Less
RECURSIVE NameLess(_, _)
NameLess(x, y) ==
    IF x = <<>> THEN y # <<>>
    ELSE IF y = <<>> THEN FALSE
    ELSE IF x[1] = y[1] THEN NameLess(Tail(x), Tail(y))
    ELSE CharRank(x[1]) < CharRank(y[1])

\* Path::parent, Path::file_name, Path::is_dir
Parent(p) == SubSeq(p, 1, Len(p) - 1)
FileName(p) == p[Len(p)]
IsDirOn(d, p) == p = <<>> \/ (p \in DOMAIN d /\ d[p] = "dir")

\* p is q or lies below it.
Under(p, q) == Len(q) <= Len(p) /\ SubSeq(p, 1, Len(q)) = q

\* fs::read_dir
Children(d, dir) == {p \in DOMAIN d : Len(p) = Len(dir) + 1 /\ Parent(p) = dir}

\* FileEntry::from_path: the fields the App reads.
FromPath(d, p) ==
    [path |-> p, name |-> FileName(p),
     file_type |-> IF d[p] = "dir" THEN "Directory" ELSE "File",
     is_hidden |-> FileName(p)[1] = "."]

\* The comparison of the sort in read_directory: directories first, then
\* by name.
EntryLess(a, b) ==
    IF a.file_type = "Directory" /\ b.file_type # "Directory" THEN TRUE
    ELSE IF a.file_type # "Directory" /\ b.file_type = "Directory" THEN FALSE
    ELSE NameLess(a.name, b.name)

RECURSIVE SortEntries(_)
SortEntries(S) ==
    IF S = {} THEN <<>>
    ELSE LET m == CHOOSE e \in S : \A f \in S \ {e} : EntryLess(e, f)
         IN <<m>> \o SortEntries(S \ {m})

\* FileEntry::read_directory
ReadDirectory(d, dir, show_hidden) ==
    IF ~IsDirOn(d, dir) THEN Err
    ELSE Ok(SortEntries({e \in {FromPath(d, p) : p \in Children(d, dir)} :
                            show_hidden \/ ~e.is_hidden}))

(* std::fs as FileOperation uses it.  Each operation gives [ok, disk]: the  *)
(* tree it leaves and whether it returned Ok.  The volume holds at most     *)
(* MaxFiles paths; creating one more fails.                                 *)

MaxFiles == 8

IoOk(d) == [ok |-> TRUE, disk |-> d]
IoErr(d) == [ok |-> FALSE, disk |-> d]

RemoveTree(d, p) == [q \in {q \in DOMAIN d : ~Under(q, p)} |-> d[q]]

\* FileOperation::delete
Delete(d, p) ==
    IF p = <<>> \/ p \notin DOMAIN d THEN IoErr(d) ELSE IoOk(RemoveTree(d, p))

\* fs::create_dir_all
CreateDirAll(d, p) ==
    LET prefixes == {SubSeq(p, 1, k) : k \in 1..Len(p)}
        missing == prefixes \ DOMAIN d
    IN IF \E q \in prefixes : q \in DOMAIN d /\ d[q] = "file" THEN IoErr(d)
       ELSE IF Cardinality(DOMAIN d \cup missing) > MaxFiles THEN IoErr(d)
       ELSE IoOk([q \in DOMAIN d \cup missing |->
                     IF q \in missing THEN "dir" ELSE d[q]])

\* fs::File::create and the target of fs::copy: p becomes a file.
WriteFile(d, p) ==
    IF p = <<>> \/ ~IsDirOn(d, Parent(p)) \/ IsDirOn(d, p) THEN IoErr(d)
    ELSE IF p \notin DOMAIN d /\ Cardinality(DOMAIN d) >= MaxFiles THEN IoErr(d)
    ELSE IoOk([q \in DOMAIN d \cup {p} |-> IF q = p THEN "file" ELSE d[q]])

\* FileOperation::create_file
CreateFile(d, p) ==
    LET c == IF p = <<>> THEN IoOk(d) ELSE CreateDirAll(d, Parent(p))
    IN IF ~c.ok THEN c ELSE WriteFile(c.disk, p)

\* FileOperation::create_directory
CreateDirectory(d, p) == CreateDirAll(d, p)

\* fs::rename: a file replaces a file, a directory replaces an empty
\* directory, and a directory cannot move below itself.
FsRename(d, old, new) ==
    IF old = <<>> \/ new = <<>> \/ old \notin DOMAIN d THEN IoErr(d)
    ELSE IF ~IsDirOn(d, Parent(new)) THEN IoErr(d)
    ELSE IF new = old THEN IoOk(d)
    ELSE IF Under(new, old) THEN IoErr(d)
    ELSE IF new \in DOMAIN d /\ d[new] # d[old] THEN IoErr(d)
    ELSE IF new \in DOMAIN d /\ d[new] = "dir" /\ Children(d, new) # {}
    THEN IoErr(d)
    ELSE LET rest == RemoveTree(RemoveTree(d, new), old)
             moved == {q \in DOMAIN d : Under(q, old)}
             Target(q) == new \o SubSeq(q, Len(old) + 1, Len(q))
         IN IoOk([q \in DOMAIN rest \cup {Target(m) : m \in moved} |->
                     IF q \in DOMAIN rest THEN rest[q]
                     ELSE d[CHOOSE m \in moved : Target(m) = q]])

\* fs::copy of one file
CopyFile(d, source, dest) ==
    IF source \notin DOMAIN d \/ d[source] # "file" THEN IoErr(d)
    ELSE WriteFile(d, dest)

\* FileOperation::copy_dir_all.  Copying a directory below itself recurses
\* until the path is too long for the system; it is taken as a failure.
RECURSIVE CopyDirAll(_, _, _)
RECURSIVE CopyAll(_, _, _)
CopyDirAll(d, source, dest) ==
    IF dest # source /\ Under(dest, source) THEN IoErr(d)
    ELSE LET c == CreateDirAll(d, dest)
         IN IF ~c.ok THEN c
            ELSE IF ~IsDirOn(c.disk, source) THEN IoErr(c.disk)
            ELSE CopyAll(c.disk, Children(c.disk, source), dest)

CopyAll(d, todo, dest) ==
    IF todo = {} THEN IoOk(d)
    ELSE LET p == CHOOSE q \in todo : TRUE
             r == IF IsDirOn(d, p)
                  THEN CopyDirAll(d, p, dest \o <<FileName(p)>>)
                  ELSE CopyFile(d, p, dest \o <<FileName(p)>>)
         IN IF ~r.ok THEN r ELSE CopyAll(r.disk, todo \ {p}, dest)

\* FileOperation::copy
Copy(d, source, dest) ==
    IF IsDirOn(d, source) THEN CopyDirAll(d, source, dest)
    ELSE LET c == IF dest = <<>> THEN IoOk(d)
                  ELSE CreateDirAll(d, Parent(dest))
         IN IF ~c.ok THEN c ELSE CopyFile(c.disk, source, dest)

\* The components of a typed name: the runs between slashes.
RECURSIVE Components(_)
Components(buf) ==
    IF buf = <<>> THEN <<>>
    ELSE IF buf[1] = "/" THEN Components(Tail(buf))
    ELSE LET stops == {i \in 1..Len(buf) : buf[i] = "/"}
             n == IF stops = {} THEN Len(buf) + 1
                  ELSE CHOOSE i \in stops : \A j \in stops : i <= j
         IN <<SubSeq(buf, 1, n - 1)>> \o Components(SubSeq(buf, n, Len(buf)))

\* Path::join: an absolute argument replaces the base.
Join(dir, buf) ==
    IF buf # <<>> /\ buf[1] = "/" THEN Components(buf)
    ELSE dir \o Components(buf)

(* App (app.rs).  entries is 1-based here, so the entry under the cursor is *)
(* entries[selected_index + 1].  search_query, show_preview, scroll_offset, *)
(* git_status and error_message are left out: no operation below reads     *)
(* them.  mode is "Normal", "Search", the InputMode ("Rename", "New",       *)
(* "Copy", "Move") or the ConfirmationMode ("Delete").                      *)
(* An operation gives [app, disk, res, deleted]: res is "ok", "err" or      *)
(* "panic" (an index past the end of entries), deleted the paths handed to  *)
(* FileOperation::delete.                                                   *)

InputModes == {"Rename", "New", "Copy", "Move"}

Ret(a, d, res) == [app |-> a, disk |-> d, res |-> res, deleted |-> {}]

\* App::current_entry
CurrentEntry(a) ==
    IF a.selected_index < Len(a.entries)
    THEN Some(a.entries[a.selected_index + 1]) ELSE None

\* App::load_directory
LoadDirectory(a, d) ==
    LET r == ReadDirectory(d, a.current_dir, a.show_hidden)
    IN IF ~r.ok THEN Ret(a, d, "err")
       ELSE Ret([a EXCEPT !.entries = Unwrap(r.val), !.selected_index = 0],
                d, "ok")

\* Iterator::position over the paths of a listing, 0-based.
PositionOf(entries, path) ==
    LET I == {i \in 1..Len(entries) : entries[i].path = path}
    IN IF I = {} THEN None ELSE Some((CHOOSE i \in I : \A j \in I : i <= j) - 1)

\* App::refresh_entries
RefreshEntries(a, d) ==
    LET sel == CurrentEntry(a)
        r == ReadDirectory(d, a.current_dir, a.show_hidden)
    IN IF ~r.ok THEN Ret(a, d, "err")
       ELSE LET es == Unwrap(r.val)
                pos == IF IsSome(sel) THEN PositionOf(es, Unwrap(sel).path)
                       ELSE None
            IN Ret([a EXCEPT !.entries = es,
                             !.selected_index =
                                 IF IsSome(pos) THEN Unwrap(pos) ELSE @],
                   d, "ok")

\* The position toggle_selection finds for the cursor, or 0.
TogglePos(a) ==
    LET I == {i \in 1..Len(a.selected_entries) :
                 a.selected_entries[i] = a.selected_index}
    IN IF I = {} THEN 0 ELSE CHOOSE i \in I : \A j \in I : i <= j

\* The last character of the typed name is a slash.
EndsWithSlash(buf) == buf # <<>> /\ buf[Len(buf)] = "/"

\* The loop of delete_selected over indices.iter().rev(): k is the position
\* in indices still to do, gone the paths deleted so far.
RECURSIVE DeleteFrom(_, _, _, _, _)
DeleteFrom(a, d, indices, k, gone) ==
    IF k = 0 THEN [ok |-> TRUE, disk |-> d, deleted |-> gone]
    ELSE IF indices[k] < Len(a.entries)
    THEN LET path == a.entries[indices[k] + 1].path
             r == Delete(d, path)
         IN IF ~r.ok THEN [ok |-> FALSE, disk |-> r.disk, deleted |-> gone]
            ELSE DeleteFrom(a, r.disk, indices, k - 1, gone \cup {path})
    ELSE DeleteFrom(a, d, indices, k - 1, gone)

\* App::delete_selected
DeleteSelected(a, d) ==
    LET indices == IF a.selected_entries = <<>> THEN <<a.selected_index>>
                   ELSE a.selected_entries
        r == DeleteFrom(a, d, indices, Len(indices), {})
    IN IF ~r.ok
       THEN [app |-> a, disk |-> r.disk, res |-> "err", deleted |-> r.deleted]
       ELSE LET l == LoadDirectory([a EXCEPT !.selected_entries = <<>>], r.disk)
            IN [l EXCEPT !.deleted = r.deleted]

\* App::rename_selected
RenameSelected(a, d) ==
    IF a.entries # <<>> /\ a.input_buffer # <<>>
    THEN IF a.selected_index >= Len(a.entries) THEN Ret(a, d, "panic")
         ELSE LET source == a.entries[a.selected_index + 1].path
                  r == FsRename(d, source,
                                Join(Parent(source), a.input_buffer))
              IN IF ~r.ok THEN Ret(a, r.disk, "err")
                 ELSE LoadDirectory(a, r.disk)
    ELSE Ret(a, d, "ok")

\* App::copy_selected
CopySelected(a, d) ==
    IF a.entries # <<>> /\ a.input_buffer # <<>>
    THEN IF a.selected_index >= Len(a.entries) THEN Ret(a, d, "panic")
         ELSE LET source == a.entries[a.selected_index + 1].path
                  r == Copy(d, source, Join(a.current_dir, a.input_buffer))
              IN IF ~r.ok THEN Ret(a, r.disk, "err")
                 ELSE LoadDirectory(a, r.disk)
    ELSE Ret(a, d, "ok")

\* App::move_selected
MoveSelected(a, d) ==
    IF a.entries # <<>> /\ a.input_buffer # <<>>
    THEN IF a.selected_index >= Len(a.entries) THEN Ret(a, d, "panic")
         ELSE LET source == a.entries[a.selected_index + 1].path
                  r == FsRename(d, source,
                                Join(a.current_dir, a.input_buffer))
              IN IF ~r.ok THEN Ret(a, r.disk, "err")
                 ELSE LoadDirectory(a, r.disk)
    ELSE Ret(a, d, "ok")

\* App::create_new
CreateNew(a, d) ==
    IF a.input_buffer # <<>>
    THEN LET new_path == Join(a.current_dir, a.input_buffer)
             r == IF EndsWithSlash(a.input_buffer)
                  THEN CreateDirectory(d, new_path)
                  ELSE CreateFile(d, new_path)
         IN IF ~r.ok THEN Ret(a, r.disk, "err") ELSE LoadDirectory(a, r.disk)
    ELSE Ret(a, d, "ok")

\* Mutant: the mode and the buffer are reset before the operation runs.
ConfirmAction_ResetFirst(a, d) ==
    LET r == CASE a.mode = "Delete" -> DeleteSelected(a, d)
               [] a.mode = "Rename" -> RenameSelected(a, d)
               [] a.mode = "New" -> CreateNew(a, d)
               [] a.mode = "Copy" -> CopySelected(a, d)
               [] a.mode = "Move" -> MoveSelected(a, d)
               [] OTHER -> Ret(a, d, "ok")
    IN [r EXCEPT !.app.mode = "Normal", !.app.input_buffer = <<>>]

\* App::confirm_action
ConfirmAction(a, d) ==
    LET r == CASE a.mode = "Delete" -> DeleteSelected(a, d)
               [] a.mode = "Rename" -> RenameSelected(a, d)
               [] a.mode = "New" -> CreateNew(a, d)
               [] a.mode = "Copy" -> CopySelected(a, d)
               [] a.mode = "Move" -> MoveSelected(a, d)
               [] OTHER -> Ret(a, d, "ok")
    IN IF r.res = "ok"
       THEN [r EXCEPT !.app.mode = "Normal", !.app.input_buffer = <<>>]
       ELSE r

(* The explorer as run_app and handle_ipc_message drive it (main.rs), and   *)
(* as any other caller of App's public methods may.  outcome.viaMain says   *)
(* that every call so far is one run_app makes in the state it is in, and   *)
(* that run_app had not returned before it: run_app returns on the first    *)
(* Err it is handed and when Enter finds paths to return.                   *)

DirW == <<(<<"w">>)>>
DirD == DirW \o <<(<<"d">>)>>

InitialTree ==
    (DirW :> "dir") @@ (DirD :> "dir")
    @@ ((DirD \o <<(<<"a">>)>>) :> "file") @@ ((DirD \o <<(<<"b">>)>>) :> "file")
    @@ ((DirW \o <<(<<"a">>)>>) :> "file")
    @@ ((DirW \o <<(<<".", "a">>)>>) :> "file")

\* The characters typed into the input buffer, its greatest length, and the
\* greatest number of toggled entries.
InputChars == {"z", "/"}
MaxInput == 2
MaxSelected == 2

\* The number of calls and outside changes followed from the start.
MaxCalls == 7

\* Directories an IPC Navigate message names.
NavigateTargets == {<<>>, DirW, DirD}

\* App::new
NewApp(start_dir, d) ==
    LoadDirectory([current_dir |-> start_dir, entries |-> <<>>,
                   selected_index |-> 0, selected_entries |-> <<>>,
                   mode |-> "Normal", input_buffer |-> <<>>,
                   show_hidden |-> FALSE], d)

AppInit ==
    /\ now = 0
    /\ repo = RepoBase
    /\ cache = NewCache(now)
    /\ HistIdle
    /\ ConcIdle
    /\ WatchIdle
    /\ LoopIdle
    /\ disk = InitialTree
    /\ \E start_dir \in {DirW, DirD} : app = NewApp(start_dir, disk).app
    /\ marked = <<>>
    /\ outcome = NoOutcome

Looping(o) == o.res \in {"none", "ok"}

\* One call: r is what the operation gives, mk the toggled entries after
\* it, main whether run_app makes this call in this state.  op is
\* "confirm" for confirm_action and "call" for any other.
AppCall(op, r, mk, main) ==
    /\ outcome.res # "panic"
    /\ outcome.calls < MaxCalls
    /\ app' = r.app
    /\ disk' = r.disk
    /\ marked' = mk
    /\ outcome' = [op |-> op, res |-> r.res,
                   mode |-> IF op = "confirm" THEN app.mode ELSE "Normal",
                   input_buffer |-> IF op = "confirm" THEN app.input_buffer
                                    ELSE <<>>,
                   marks |-> IF op = "confirm" THEN marked ELSE <<>>,
                   deleted |-> r.deleted,
                   viaMain |-> outcome.viaMain /\ Looping(outcome) /\ main,
                   calls |-> outcome.calls + 1]
    /\ UNCHANGED <<cacheVars, concVars, watchVars, loopVars>>

\* selected_entries.clear() is the one change of the list besides a toggle.
Marks(r) == IF r.app.selected_entries = <<>> THEN <<>> ELSE marked

\* App::move_down
MoveDown ==
    AppCall("call",
            Ret(IF app.entries = <<>> THEN app
                ELSE [app EXCEPT !.selected_index =
                         IF @ + 1 < Len(app.entries) - 1 THEN @ + 1
                         ELSE Len(app.entries) - 1], disk, "ok"),
            marked, TRUE)

\* App::move_up
MoveUp ==
    AppCall("call",
            Ret(IF app.selected_index > 0
                THEN [app EXCEPT !.selected_index = @ - 1] ELSE app,
                disk, "ok"),
            marked, TRUE)

\* App::go_top
GoTop ==
    AppCall("call", Ret([app EXCEPT !.selected_index = 0], disk, "ok"),
            marked, TRUE)

\* App::go_bottom
GoBottom ==
    AppCall("call",
            Ret(IF app.entries # <<>>
                THEN [app EXCEPT !.selected_index = Len(app.entries) - 1]
                ELSE app, disk, "ok"),
            marked, TRUE)

\* App::go_parent: the result of load_directory is dropped.
GoParent ==
    AppCall("call",
            IF app.current_dir = <<>> THEN Ret(app, disk, "ok")
            ELSE Ret(LoadDirectory([app EXCEPT !.current_dir = Parent(@)],
                                   disk).app, disk, "ok"),
            marked, TRUE)

\* App::enter_directory
EnterDirectory ==
    AppCall("call",
            IF app.entries = <<>> THEN Ret(app, disk, "ok")
            ELSE IF app.selected_index >= Len(app.entries)
            THEN Ret(app, disk, "panic")
            ELSE LET entry == app.entries[app.selected_index + 1]
                 IN IF entry.file_type = "Directory"
                    THEN LoadDirectory([app EXCEPT !.current_dir = entry.path],
                                       disk)
                    ELSE Ret(app, disk, "ok"),
            marked, TRUE)

\* App::toggle_selection
ToggleSelection ==
    /\ TogglePos(app) = 0 => Len(app.selected_entries) < MaxSelected
    /\ AppCall("call",
               Ret(IF TogglePos(app) # 0
                   THEN [app EXCEPT !.selected_entries =
                            RemoveAt(@, TogglePos(app))]
                   ELSE [app EXCEPT !.selected_entries =
                            Append(@, app.selected_index)], disk, "ok"),
               IF TogglePos(app) # 0 THEN RemoveAt(marked, TogglePos(app))
               ELSE Append(marked, CurrentEntry(app)),
               TRUE)

\* App::toggle_hidden_files
ToggleHiddenFiles ==
    AppCall("call", LoadDirectory([app EXCEPT !.show_hidden = ~@], disk),
            marked, TRUE)

\* App::start_search
StartSearch ==
    AppCall("call", Ret([app EXCEPT !.mode = "Search"], disk, "ok"),
            marked, TRUE)

\* App::start_delete_mode, start_copy_mode, start_move_mode
StartMode ==
    \E m \in {"Delete", "Copy", "Move"} :
        AppCall("call",
                Ret(IF app.entries = <<>> THEN app
                    ELSE IF m = "Delete" THEN [app EXCEPT !.mode = m]
                    ELSE [app EXCEPT !.mode = m, !.input_buffer = <<>>],
                    disk, "ok"),
                marked, TRUE)

\* App::start_rename_mode: the mode is set before the entry is read.
StartRenameMode ==
    AppCall("call",
            IF app.entries = <<>> THEN Ret(app, disk, "ok")
            ELSE IF app.selected_index >= Len(app.entries)
            THEN Ret([app EXCEPT !.mode = "Rename"], disk, "panic")
            ELSE Ret([app EXCEPT
                         !.mode = "Rename",
                         !.input_buffer =
                             app.entries[app.selected_index + 1].name],
                     disk, "ok"),
            marked, TRUE)

\* App::start_new_mode
StartNewMode ==
    AppCall("call",
            Ret([app EXCEPT !.mode = "New", !.input_buffer = <<>>], disk, "ok"),
            marked, TRUE)

\* App::handle_input; run_app hands it a character only in an input mode,
\* and never the slash, which is the search key.
HandleInput ==
    \E c \in InputChars :
        /\ Len(app.input_buffer) < MaxInput
        /\ AppCall("call",
                   Ret(IF app.mode \in InputModes
                       THEN [app EXCEPT !.input_buffer = Append(@, c)]
                       ELSE app, disk, "ok"),
                   marked, app.mode \in InputModes /\ c # "/")

\* App::backspace_input
BackspaceInput ==
    AppCall("call",
            Ret(IF app.mode \in InputModes /\ app.input_buffer # <<>>
                THEN [app EXCEPT !.input_buffer =
                         SubSeq(@, 1, Len(@) - 1)]
                ELSE app, disk, "ok"),
            marked, app.mode \in InputModes)

\* App::confirm_action; run_app calls it only in a confirmation mode.
Confirm ==
    LET r == ConfirmAction(app, disk)
    IN AppCall("confirm", r, Marks(r), app.mode = "Delete")

\* Enter: App::get_selected_paths; it indexes entries only when nothing is
\* toggled, and run_app returns the paths it gives.
GetSelectedPaths ==
    AppCall("call",
            Ret(app, disk,
                IF app.entries = <<>> THEN "ok"
                ELSE IF app.selected_entries = <<>>
                        /\ app.selected_index >= Len(app.entries)
                THEN "panic"
                ELSE "returned"),
            marked, TRUE)

\* handle_ipc_message: RefreshFile
IpcRefreshFile ==
    AppCall("call", RefreshEntries(app, disk), marked, TRUE)

\* handle_ipc_message: Navigate
IpcNavigate ==
    \E directory \in NavigateTargets :
        AppCall("call",
                RefreshEntries([app EXCEPT !.current_dir = directory], disk),
                marked, TRUE)

\* What another program removes while the explorer runs.
ExternalTargets == {DirW \o <<(<<"a">>)>>, DirD \o <<(<<"b">>)>>}

\* Another program removes a file or a directory with what is below it.
ExternalRemove ==
    \E p \in ExternalTargets \cap DOMAIN disk :
        /\ outcome.res # "panic"
        /\ outcome.calls < MaxCalls
        /\ disk' = RemoveTree(disk, p)
        /\ outcome' = [outcome EXCEPT !.calls = @ + 1]
        /\ UNCHANGED <<app, marked, cacheVars, concVars, watchVars, loopVars>>

AppNext ==
    \/ MoveDown
    \/ MoveUp
    \/ GoTop
    \/ GoBottom
    \/ GoParent
    \/ EnterDirectory
    \/ ToggleSelection
    \/ ToggleHiddenFiles
    \/ StartSearch
    \/ StartMode
    \/ StartRenameMode
    \/ StartNewMode
    \/ HandleInput
    \/ BackspaceInput
    \/ Confirm
    \/ GetSelectedPaths
    \/ IpcRefreshFile
    \/ IpcNavigate
    \/ ExternalRemove

SpecApp == AppInit /\ [][AppNext]_vars

----------------------------------------------------------------------------
(* Claims about the file explorer (SpecApp).                                *)

\* The cursor is on an entry of the listing, if there is any.
CursorInside == app.entries # <<>> => app.selected_index < Len(app.entries)

(* C37 as stated: after any sequence of App operations run_app and the IPC  *)
(* handler make, selected_index is less than the number of entries whenever *)
(* entries is non-empty, and no operation indexes past the end of entries.  *)
C37_AsStated == outcome.viaMain => (CursorInside /\ outcome.res # "panic")

\* The paths of the entries that were under the cursor when toggled.
MarkedPaths(marks) ==
    {Unwrap(marks[i]).path : i \in {j \in 1..Len(marks) : IsSome(marks[j])}}

(* C38 as stated: a confirmed delete removes only entries the user toggled  *)
(* in the directory listed when it is confirmed, or, with nothing toggled,  *)
(* the entry under the cursor.                                              *)
C38_AsStated ==
    (/\ outcome.viaMain
     /\ outcome.op = "confirm"
     /\ outcome.mode = "Delete"
     /\ outcome.marks # <<>>)
    => outcome.deleted \subseteq MarkedPaths(outcome.marks)

(* C39: when confirm_action returns Ok the mode is Normal and the input     *)
(* buffer is empty; when it returns the error of the operation, the mode    *)
(* and the input buffer are the ones before the call.                       *)
C39_ConfirmResult ==
    outcome.op = "confirm" =>
        /\ outcome.res = "ok" =>
              (app.mode = "Normal" /\ app.input_buffer = <<>>)
        /\ outcome.res = "err" =>
              (app.mode = outcome.mode
               /\ app.input_buffer = outcome.input_buffer)

\* A copy onto the root failed: the mode is still Copy and the typed name
\* is still in the buffer.
C39_Witness ==
    /\ outcome.op = "confirm"
    /\ outcome.res = "err"
    /\ outcome.mode = "Copy"
    /\ app.mode = "Copy"
    /\ app.input_buffer = <<"/">>

====
